---------------------------- MODULE Spec2Model ----------------------------
(***************************************************************************)
(* A model of the layout and tick/format decision logic of newsworthycharts *)
(* (Chart._apply_changes_before_rendering, SerialChart._add_data,           *)
(* SerialChart._get_bar_colors, SerialChart._get_annotation_direction,      *)
(* Formatter, color_fn).                                                    *)
(*                                                                          *)
(* Numbers on the value axis are fixed-point: an integer v stands for the   *)
(* number v / Scale.  An optional Python value is a sequence: <<>> is None  *)
(* and <<v>> is the value v.                                                *)
(***************************************************************************)
EXTENDS Integers, Sequences, FiniteSets, TLC

VARIABLES
    \* ---- Chart._apply_changes_before_rendering (tick/decimal resolution)
    pc,              \* position inside _apply_changes_before_rendering
    show_ticks,      \* Chart.show_ticks
    has_data,        \* len(self.data) > 0
    units,           \* Chart.units
    decimals,        \* Chart.decimals (None or a number)
    caller_decimals, \* the value of Chart.decimals when render was called
    ticks,           \* positions of the value axis ticks, bottom to top
    ticks_fixed,     \* value_axis.set_ticks() has replaced the drawn ticks
    try_dec,         \* local try_dec
    keep_trying,     \* local keep_trying
    tried,           \* the values the loop has assigned to decimals, in order
    add_data_calls,  \* number of calls of _add_data made by this render
    \* ---- SerialChart._add_data (type "bars") and _get_bar_colors
    bpc,             \* "plotting" | "done" | "raised"
    n_series,        \* len(self.data)
    n_points,        \* number of timepoints of every series (dates 1..n_points)
    baseline,        \* SerialChart.baseline
    highlight,       \* Chart.highlight: None, a date or a series label
    color_fn,        \* Chart.color_fn: None or the name of a colour rule
    colors,          \* SerialChart.colors: None or a list of colours
    labels,          \* Chart.labels
    serie_i,         \* number of series the loop of _add_data has gone through
    serie,           \* the values of the series handled last, as given (nullable)
    bars,            \* ax.patches: per plotted series, the colours of its bars
    \* ---- SerialChart._get_annotation_direction
    apc,             \* "call" | "returned" | "raised"
    values,          \* argument values (nullable entries)
    index,           \* argument index, counted from 1
    direction,       \* the value returned, or the error raised
    \* ---- SerialChart._add_data (type "line"): the highlighted points
    lpc,             \* "plot" | "done"
    line_n_series,   \* len(self.data)
    highlight_date,  \* local highlight_date (dates are 1, 2, ...)
    line_serie_i,    \* number of series the loop has gone through
    line_values,     \* local values after the loop: the last series' array
    highlight_values,\* local highlight_values
    highlight_dirs,  \* per highlighted value, the direction of its annotation
    line_series,     \* serie_values: the values of the series gone through
    \* ---- locator.get_best_locator
    kpc,             \* "call" | "returned"
    delta_days,      \* argument delta, in days (delta.days)
    points,          \* argument points
    locator,         \* the locator returned
    \* ---- locator.get_year_ticks
    ypc,             \* "call" | "returned" | "raised"
    dates,           \* argument dates: a list of dates <<year, month, day>>
    max_ticks,       \* argument max_ticks
    selected_dates,  \* the list returned
    \* ---- SerialChart._add_data: limits of the value axis (not stacked)
    vpc,             \* "limits" | "done"
    data_min,        \* self.data.min_val
    data_max,        \* self.data.max_val
    axis_baseline,   \* SerialChart.baseline
    allow_broken_y_axis, \* SerialChart.allow_broken_y_axis
    chart_ymin,      \* SerialChart.ymin (None or a number)
    chart_ymax,      \* SerialChart.ymax (None or a number)
    ymin,            \* local ymin
    ylim,            \* ax.set_ylim(bottom, top), in hundredths
    broken_axis,     \* _mark_broken_axis() has drawn the break mark
    \* ---- Chart.render: the size of the canvas through the layout
    gpc,             \* "size" | "title" | "subtitle" | "logo" | "caption" |
                     \* "note" | "encode" | "done"
    requested_width, \* Chart.requested_width
    requested_height,\* Chart.requested_height (None or a number)
    factor,          \* argument factor of render
    title,           \* Chart.title is set
    subtitle,        \* Chart.subtitle is set
    note,            \* Chart.note is set
    caption,         \* Chart.caption is set
    logo,            \* None or the width in pixels of the logo image
    rtl,             \* the locale's text direction is right to left
    fig_size,        \* size of self._fig in pixels at the figure's dpi
    caption_hextent, \* local caption_hextent (None or <<left, right>>)
    image_size,      \* None or the size in pixels of the encoded image
    \* ---- Chart.render / Chart.render_all on a SerialChart: passes, storage
    rpc,             \* "ready" | the pass to run next | "save" | "raised"
    method,          \* the method running: "render" | "render_all"
    todo,            \* the formats this call has still to write
    r_series,        \* len(self.data)
    dup_serie,       \* 0, or the first series that has a timepoint twice
    r_highlight,     \* Chart.highlight is set to a date of the data
    r_decimals,      \* Chart.decimals
    r_interval,      \* Chart.interval
    r_show_ticks,    \* Chart.show_ticks
    r_texts,         \* title, subtitle, caption and note are set
    r_annotations,   \* len(self.annotations)
    elems,           \* what the figure holds: plotted series, annotations,
                     \* the title, the other text elements
    canvas,          \* size of the figure in pixels
    plotted,         \* number of series this call has plotted
    passes,          \* the passes this call has run, in order
    saved,           \* the formats this call has passed to storage.save
    r_error,         \* None or the error that ended the call
    calls,           \* the methods of the calls that have returned
    first,           \* None or the chart as the first call left it
    \* ---- Chart.init_from
    ipc,             \* "call" | "returned" | "raised"
    args,            \* argument args: a mapping from keys to values
    args_given,      \* args as it was when init_from was called
    chart,           \* None or the attributes of the chart returned
    \* ---- Chart.units (property and setter)
    ucls,            \* the class of the chart object
    chart_units,     \* self._units
    units_before,    \* self._units before the last assignment to units
    units_val,       \* None or the value last assigned to units
    units_error,     \* None or the error the last assignment raised
    units_sets,      \* number of assignments made
    \* ---- DatawrapperChart.render
    dpc,             \* position in render
    dw_attrs,        \* caption, highlight and dw_data as the caller set them
    dw_calls,        \* the remote calls issued, with the status returned
    dw_saved,        \* number of calls of storage.save
    dw_error,        \* "" or the error render raised
    \* ---- the x tick step of SerialChart._add_data and Chart._set_date_ticks
    xpc,             \* "call" | "set" | "raised"
    x_cls,           \* the class whose x tick step runs
    x_manual,        \* self.ticks is given
    x_points,        \* self.data.x_points, as dates in ascending order
    x_interval,      \* self.interval as the caller left it (None: not given)
    x_step,          \* what the step set on the x axis, or the error raised
    x_tick,          \* None or the date of the tick the label callback got
    x_pos,           \* the index the label callback got
    x_label,         \* None or what the label callback returned
    \* ---- SerialChart._add_data, type "bars": the bottoms of stacked bars
    spc,             \* "plotting" | "done"
    stack_data,      \* the series as given: per series, its nullable values
    stack_i,         \* number of series the loop has gone through
    stack_bars,      \* per plotted series and timepoint, bottom and height
    \* ---- Chart._apply_changes_before_rendering: the final margin fit
    mpc,             \* "fit" | "fitted" | "raised"
    m_h,             \* self._h, the height of the canvas in pixels
    m_elems,         \* the heights in pixels of the elements drawn (0: none)
    m_top,           \* top of the plot area, in pixels from the bottom edge
    m_bottom         \* bottom of the plot area, in pixels from the bottom edge

tickVars == <<pc, show_ticks, has_data, units, decimals, caller_decimals,
              ticks, ticks_fixed, try_dec, keep_trying, tried, add_data_calls>>
barVars == <<bpc, n_series, n_points, baseline, highlight, color_fn, colors,
             labels, serie_i, serie, bars>>
annVars == <<apc, values, index, direction>>
lineVars == <<lpc, line_n_series, highlight_date, line_serie_i, line_values,
              highlight_values, highlight_dirs, line_series>>
locVars == <<kpc, delta_days, points, locator>>
yearVars == <<ypc, dates, max_ticks, selected_dates>>
axisVars == <<vpc, data_min, data_max, axis_baseline, allow_broken_y_axis,
              chart_ymin, chart_ymax, ymin, ylim, broken_axis>>
layoutVars == <<gpc, requested_width, requested_height, factor, title,
                subtitle, note, caption, logo, rtl, fig_size,
                caption_hextent, image_size>>
renderVars == <<rpc, method, todo, r_series, dup_serie, r_highlight,
                r_decimals, r_interval, r_show_ticks, r_texts, r_annotations,
                elems, canvas, plotted, passes, saved, r_error, calls, first>>
initVars == <<ipc, args, args_given, chart>>
unitVars == <<ucls, chart_units, units_before, units_val, units_error,
              units_sets>>
dwVars == <<dpc, dw_attrs, dw_calls, dw_saved, dw_error>>
stackVars == <<spc, stack_data, stack_i, stack_bars>>
marginVars == <<mpc, m_h, m_elems, m_top, m_bottom>>
xtickVars == <<xpc, x_cls, x_manual, x_points, x_interval, x_step, x_tick,
               x_pos, x_label>>
\* ---- the whole state, and what the actions of one part leave alone
vars == <<tickVars, barVars, annVars, lineVars, locVars, yearVars,
    axisVars, layoutVars, renderVars, initVars, unitVars, dwVars,
    xtickVars, stackVars, marginVars>>
exceptTick == <<barVars, annVars, lineVars, locVars, yearVars, axisVars,
    layoutVars, renderVars, initVars, unitVars, dwVars, xtickVars,
    stackVars, marginVars>>
exceptBar == <<tickVars, annVars, lineVars, locVars, yearVars, axisVars,
    layoutVars, renderVars, initVars, unitVars, dwVars, xtickVars,
    stackVars, marginVars>>
exceptAnn == <<tickVars, barVars, lineVars, locVars, yearVars, axisVars,
    layoutVars, renderVars, initVars, unitVars, dwVars, xtickVars,
    stackVars, marginVars>>
exceptLine == <<tickVars, barVars, annVars, locVars, yearVars, axisVars,
    layoutVars, renderVars, initVars, unitVars, dwVars, xtickVars,
    stackVars, marginVars>>
exceptLoc == <<tickVars, barVars, annVars, lineVars, yearVars, axisVars,
    layoutVars, renderVars, initVars, unitVars, dwVars, xtickVars,
    stackVars, marginVars>>
exceptYear == <<tickVars, barVars, annVars, lineVars, locVars, axisVars,
    layoutVars, renderVars, initVars, unitVars, dwVars, xtickVars,
    stackVars, marginVars>>
exceptAxis == <<tickVars, barVars, annVars, lineVars, locVars, yearVars,
    layoutVars, renderVars, initVars, unitVars, dwVars, xtickVars,
    stackVars, marginVars>>
exceptLayout == <<tickVars, barVars, annVars, lineVars, locVars, yearVars,
    axisVars, renderVars, initVars, unitVars, dwVars, xtickVars, stackVars,
    marginVars>>
exceptRender == <<tickVars, barVars, annVars, lineVars, locVars, yearVars,
    axisVars, layoutVars, initVars, unitVars, dwVars, xtickVars, stackVars,
    marginVars>>
exceptInitFrom == <<tickVars, barVars, annVars, lineVars, locVars,
    yearVars, axisVars, layoutVars, renderVars, unitVars, dwVars,
    xtickVars, stackVars, marginVars>>
exceptUnits == <<tickVars, barVars, annVars, lineVars, locVars, yearVars,
    axisVars, layoutVars, renderVars, initVars, dwVars, xtickVars,
    stackVars, marginVars>>
exceptDw == <<tickVars, barVars, annVars, lineVars, locVars, yearVars,
    axisVars, layoutVars, renderVars, initVars, unitVars, xtickVars,
    stackVars, marginVars>>
exceptXTick == <<tickVars, barVars, annVars, lineVars, locVars, yearVars,
    axisVars, layoutVars, renderVars, initVars, unitVars, dwVars,
    stackVars, marginVars>>
exceptStack == <<tickVars, barVars, annVars, lineVars, locVars, yearVars,
    axisVars, layoutVars, renderVars, initVars, unitVars, dwVars,
    xtickVars, marginVars>>
exceptMargin == <<tickVars, barVars, annVars, lineVars, locVars, yearVars,
    axisVars, layoutVars, renderVars, initVars, unitVars, dwVars,
    xtickVars, stackVars>>

None == <<>>
Some(v) == <<v>>

\* ------------------------------------------------------------------ bounds
MaxTicks == 3
MaxDecimals == 3
MaxSeries == 2
MaxPoints == 2
MaxLen == 3
MaxLines == 3
MaxDates == 4
MaxTickCount == 5
MaxRenders == 2
MaxUnitSets == 3
MaxXPoints == 3
MaxStackSeries == 3
MaxStackPoints == 2

\* ------------------------------------------------------- fixed-point scale
\* v stands for v / Scale: four decimal places
Scale == 10 * 10 * 10 * 10

RECURSIVE Pow10(_)
Pow10(n) == IF n = 0 THEN 1 ELSE 10 * Pow10(n - 1)

Abs(x) == IF x < 0 THEN 0 - x ELSE x

\* round(): the absolute value a rounded to a multiple of q, ties to even
RoundHalfEven(a, q) ==
    LET lo == a \div q
        r  == a % q
    IN  IF 2 * r < q THEN lo * q
        ELSE IF 2 * r > q THEN (lo + 1) * q
        ELSE IF lo % 2 = 0 THEN lo * q ELSE (lo + 1) * q

\* Formatter.number: the text of a tick label, as (sign, rounded magnitude).
\* format_decimal prints the rounded Decimal, which keeps its sign when it
\* rounds to zero.
FormatNumber(x, dec) ==
    LET d == IF dec = None
             THEN IF 10 * Abs(x) < Scale THEN 2
                  ELSE IF Abs(x) < Scale THEN 1
                  ELSE 0
             ELSE dec[1]
    IN  [neg |-> x < 0, mag |-> RoundHalfEven(Abs(x), Scale \div Pow10(d))]

\* Formatter.percent: round, then format_percent, whose pattern prints whole
\* percents only
FormatPercent(x, dec) ==
    LET a == IF dec = None
             THEN IF 100 * Abs(x) < Scale
                  THEN RoundHalfEven(Abs(x), Scale \div 10)
                  ELSE Abs(x)
             ELSE RoundHalfEven(Abs(x), Scale \div Pow10(dec[1]))
    IN  [neg |-> x < 0, mag |-> RoundHalfEven(a, Scale \div 100)]

\* Chart._get_formatter applied to a tick position
FormatTick(x, u, dec) ==
    IF u = "percent" THEN FormatPercent(x, dec) ELSE FormatNumber(x, dec)

\* the texts of the tick labels of the value axis
TickLabels(t, u, dec) == [i \in 1..Len(t) |-> FormatTick(t[i], u, dec)]

\* ------------------------------------------------ what a draw can produce
\* positions the tick locator of the plotting library may choose
TickValues == {0 - 2000, 0 - 1, 0, 1, 4, 30, 300, 10000, 14000, 20000}

RECURSIVE Ascending(_)
\* the elements of a set of numbers, as an increasing sequence
Ascending(S) ==
    IF S = {} THEN <<>>
    ELSE LET m == CHOOSE x \in S : \A y \in S : x <= y
         IN  <<m>> \o Ascending(S \ {m})

\* self._fig.canvas.draw(): the library lays out between 1 and MaxTicks ticks
\* on the value axis, in increasing order
DrawnTicks ==
    {Ascending(S) : S \in {T \in SUBSET TickValues :
                              Cardinality(T) >= 1 /\ Cardinality(T) <= MaxTicks}}

\* ------------------------------------- Chart._apply_changes_before_rendering
\* tl[i - 1] of the list comprehensions: Python's index -1 is the last element
Prev(i, n) == IF i = 1 THEN n ELSE i - 1

\* the comprehension without its filter: every label is kept
KeptIndicesUnfiltered(lab) == 1..Len(lab)

\* [x for (i, x) in enumerate(tl) if tl[i - 1] != x], as the kept indices
KeptIndices(lab) ==
    {i \in 1..Len(lab) : lab[Prev(i, Len(lab))] # lab[i]}

\* len(tl_) < len(tl)
HasDuplicates(t, u, dec) ==
    Cardinality(KeptIndices(TickLabels(t, u, dec))) < Len(t)

\* int(): truncation towards zero of v / Scale
IntTrunc(v) == IF v < 0 THEN 0 - (Abs(v) \div Scale) ELSE v \div Scale

\* math.ceil of v / Scale
Ceil(v) == IF v % Scale = 0 THEN v \div Scale ELSE (v \div Scale) + 1

Min(S) == CHOOSE x \in S : \A y \in S : x <= y
Max(S) == CHOOSE x \in S : \A y \in S : x >= y

\* range(_bottom, _top + 1) as floats
IntegerTicks(bottom, top) ==
    [k \in 1..(IF top >= bottom THEN top - bottom + 1 ELSE 0) |->
        (bottom + k - 1) * Scale]

\* self._add_data() as seen by the resolution step: the data is plotted again
AddData(n) == IF has_data THEN n + 1 ELSE n

\* len(ax.patches) for n_s series of n_p points: every call of _add_data
\* draws ax.bar(dates, values) once per series, on axes that are never cleared
BarsInAxes(n_s, n_p) == add_data_calls * n_s * n_p

\* autodetection that overrides the caller's decimals
AutodetectDecimalsAlways(dec) == TRUE

\* autodetect_decimals = self.decimals is None
AutodetectDecimals(dec) == dec = None

\* the loop giving up one attempt late
GiveUpLate(d) == d > 3

\* if try_dec > 2: keep_trying = False
GiveUp(d) == d > 2

TickInit ==
    /\ pc = "start"
    /\ show_ticks \in BOOLEAN
    /\ has_data \in BOOLEAN
    /\ units \in {"number", "percent"}
    /\ decimals \in {None} \cup {Some(d) : d \in 0..MaxDecimals}
    /\ caller_decimals = decimals
    /\ ticks = <<>>
    /\ ticks_fixed = FALSE
    /\ try_dec = 0
    /\ keep_trying = FALSE
    /\ tried = <<>>
    /\ add_data_calls = 0

\* lines 441-470: plot the data, size the figure, draw, look for duplicates
FirstDraw ==
    /\ pc = "start"
    /\ add_data_calls' = AddData(add_data_calls)
    /\ IF ~show_ticks
       THEN /\ pc' = "done"
            /\ UNCHANGED <<ticks, try_dec, keep_trying>>
       ELSE \E t \in DrawnTicks :
              /\ ticks' = t
              /\ IF HasDuplicates(t, units, decimals) /\ AutodetectDecimals(decimals)
                 THEN /\ try_dec' = 1
                      /\ keep_trying' = TRUE
                      /\ pc' = "loop"
                 ELSE /\ pc' = "dedup"
                      /\ UNCHANGED <<try_dec, keep_trying>>
    /\ UNCHANGED <<show_ticks, has_data, units, decimals, caller_decimals,
                   ticks_fixed, tried>>
    /\ UNCHANGED exceptTick

\* lines 472-483: one iteration of the while loop
Escalate ==
    /\ pc = "loop"
    /\ keep_trying
    /\ decimals' = Some(try_dec)
    /\ tried' = Append(tried, try_dec)
    /\ add_data_calls' = AddData(add_data_calls)
    /\ \E t \in DrawnTicks :
         /\ ticks' = t
         /\ keep_trying' = (HasDuplicates(t, units, Some(try_dec)) /\ ~GiveUp(try_dec))
    /\ try_dec' = try_dec + 1
    /\ pc' = IF keep_trying' THEN "loop" ELSE "dedup"
    /\ UNCHANGED <<show_ticks, has_data, units, caller_decimals, ticks_fixed>>
    /\ UNCHANGED exceptTick

\* lines 486-498: drop the ticks whose label repeats the one before
Deduplicate ==
    /\ pc = "dedup"
    /\ LET lab  == TickLabels(ticks, units, decimals)
           kept == KeptIndices(lab)
           y    == {ticks[i] : i \in kept}
       IN  IF Cardinality(kept) < Len(ticks)
           THEN IF decimals = Some(0)
                THEN IF y = {}
                     THEN \* min() of an empty list: ValueError
                          /\ pc' = "raised"
                          /\ UNCHANGED <<ticks, ticks_fixed>>
                     ELSE /\ ticks' = IntegerTicks(IntTrunc(Min(y)), Ceil(Max(y)))
                          /\ ticks_fixed' = TRUE
                          /\ pc' = "done"
                ELSE /\ ticks' = Ascending(y)
                     /\ ticks_fixed' = TRUE
                     /\ pc' = "done"
           ELSE /\ pc' = "done"
                /\ UNCHANGED <<ticks, ticks_fixed>>
    /\ UNCHANGED <<show_ticks, has_data, units, decimals, caller_decimals,
                   try_dec, keep_trying, tried, add_data_calls>>
    /\ UNCHANGED exceptTick

\* ---------------------------------------------------------------- colours
\* lib/colors.py QUALITATIVE, as style tokens
QualitativeColors == <<"q1", "q2", "q3", "q4", "q5", "q6", "q7", "q8">>

\* a colors list given by the caller, one colour per series
CallerColors == <<"c1", "c2", "c3", "c4">>

\* lib/color_fn.py positive_negative
PositiveNegative(value) ==
    IF value = None THEN "neutral"
    ELSE IF value[1] < 0 THEN "negative"
    ELSE IF value[1] > 0 THEN "positive"
    ELSE "neutral"

\* Chart._color_by with rule "positive_negative": the style colour of that name
ColorBy(value) == PositiveNegative(value)

\* ------------------------------------------------- SerialChart._add_data
\* the numbers the values of the chart's series are drawn from
Numbers == {0 - 1, 0, 1}
Nullable == {None} \cup {Some(v) : v \in Numbers}
LabelNames == {"a", "b"}

\* lines 203-207: for bars, a missing value is replaced by the baseline
ParseValues(raw) ==
    [j \in 1..Len(raw) |-> IF raw[j] = None THEN baseline ELSE raw[j][1]]

\* lines 210-216: to_date(self.highlight), None when it is no date
HighlightDate == IF highlight # None /\ highlight[1].kind = "date"
                 THEN Some(highlight[1].date) ELSE None

\* lines 247-254: values[dates.index(highlight_date)], None when the date is
\* not in the series (the dates of a series are 1..Len(vals))
HighlightValue(vals) ==
    IF highlight # None /\ HighlightDate # None /\ HighlightDate[1] <= Len(vals)
    THEN Some(vals[HighlightDate[1]]) ELSE None

\* Python truth value of highlight_value: None and 0.0 are false
Truthy(hv) == hv # None /\ hv[1] # 0

\* SerialChart._get_bar_colors
GetBarColors(vals, highlight_value) ==
    IF color_fn # None
    THEN [j \in 1..Len(vals) |-> ColorBy(Some(vals[j]))]
    ELSE IF highlight # None
    THEN [j \in 1..Len(vals) |->
            IF Truthy(highlight_value) /\ Some(j) = HighlightDate
            THEN "strong" ELSE "neutral"]
    ELSE [j \in 1..Len(vals) |-> "strong"]

\* the colouring of a line chart used for bars: the first series is strong
StackedColorFirstStrong(i) ==
    IF highlight # None
    THEN IF i = 1 THEN "strong" ELSE "neutral"
    ELSE IF colors # None THEN colors[1][i] ELSE QualitativeColors[i]

\* lines 336-347: the one colour of a series of a stacked chart, or the error
StackedColor(i) ==
    IF highlight # None
    THEN IF i > Len(labels) THEN "IndexError"
         ELSE IF highlight[1].kind = "label" /\ highlight[1].label = labels[i]
              THEN "strong" ELSE "neutral"
    ELSE IF colors # None
         THEN IF i > Len(colors[1]) THEN "IndexError" ELSE colors[1][i]
         ELSE IF i > Len(QualitativeColors) THEN "IndexError"
              ELSE QualitativeColors[i]

\* lines 334-350: the colours of the bars of series i
BarColors(i, vals) ==
    IF n_series > 1
    THEN LET c == StackedColor(i)
         IN  IF c = "IndexError" THEN <<"IndexError">>
             ELSE [j \in 1..Len(vals) |-> c]
    ELSE GetBarColors(vals, HighlightValue(vals))

Highlights ==
    {None} \cup {Some([kind |-> "date", date |-> d, label |-> ""]) : d \in 1..MaxPoints}
           \cup {Some([kind |-> "label", date |-> 0, label |-> l]) : l \in LabelNames}

RECURSIVE SeqsOf(_, _)
\* the sequences of length n over the set S
SeqsOf(S, n) ==
    IF n = 0 THEN {<<>>}
    ELSE {Append(q, x) : q \in SeqsOf(S, n - 1), x \in S}

BarInit ==
    /\ bpc = "plotting"
    /\ n_series \in 1..MaxSeries
    /\ n_points \in 1..MaxPoints
    /\ baseline \in Numbers
    /\ highlight \in Highlights
    /\ color_fn \in {None, Some("positive_negative")}
    /\ colors \in {None, Some(SubSeq(CallerColors, 1, n_series))}
    /\ labels \in {<<>>} \cup SeqsOf(LabelNames, n_series)
    /\ serie_i = 0
    /\ serie = <<>>
    /\ bars = <<>>

\* lines 242-395, type "bars": one pass of the loop over the series
PlotSerie ==
    /\ bpc = "plotting"
    /\ serie_i < n_series
    /\ \E raw \in SeqsOf(Nullable, n_points) :
         LET i    == serie_i + 1
             vals == ParseValues(raw)
             cols == BarColors(i, vals)
         IN  /\ serie' = raw
             /\ serie_i' = i
             /\ IF cols = <<"IndexError">>
                THEN /\ bpc' = "raised"
                     /\ UNCHANGED bars
                ELSE IF i > 1 /\ baseline # 0
                THEN \* "Setting a baseline is not supported for stacked bars"
                     /\ bpc' = "raised"
                     /\ UNCHANGED bars
                ELSE /\ bars' = Append(bars, cols)
                     /\ UNCHANGED bpc
    /\ UNCHANGED <<n_series, n_points, baseline, highlight, color_fn, colors, labels>>
    /\ UNCHANGED exceptBar

\* the loop over the series is over
PlotDone ==
    /\ bpc = "plotting"
    /\ serie_i = n_series
    /\ bpc' = "done"
    /\ UNCHANGED <<n_series, n_points, baseline, highlight, color_fn, colors,
                   labels, serie_i, serie, bars>>
    /\ UNCHANGED exceptBar

\* ------------------------------------ SerialChart._get_annotation_direction
RECURSIVE NotNull(_)
\* [x for x in values if x is not None]
NotNull(vs) ==
    IF vs = <<>> THEN <<>>
    ELSE IF vs[1] = None THEN NotNull(Tail(vs))
    ELSE <<vs[1][1]>> \o NotNull(Tail(vs))

\* Python 3 has no order between None and a number: <, <=, max and min raise
HasNull(vs) == \E j \in 1..Len(vs) : vs[j] = None

\* the comparison of the last point made strict
LastPointDirectionStrict(latest_not_null, last) ==
    IF latest_not_null < last THEN "up" ELSE "down"

\* lines 160-163: the last point against the latest value before it
LastPointDirection(latest_not_null, last) ==
    IF latest_not_null <= last THEN "up" ELSE "down"

\* index counts from 1: Python's index + 1
GetAnnotationDirection(i, vs) ==
    LET num_vals == Len(vs)
    IN  IF num_vals < 2 THEN "up"
        ELSE IF i = 1
        THEN IF vs[1] = None \/ vs[2] = None THEN "TypeError"
             ELSE IF vs[1][1] < vs[2][1] THEN "down" ELSE "up"
        ELSE IF i = num_vals
        THEN LET before == NotNull(SubSeq(vs, 1, num_vals - 1))
             IN  IF before = <<>> THEN "IndexError"
                 ELSE IF vs[num_vals] = None THEN "TypeError"
                 ELSE LastPointDirection(before[Len(before)], vs[num_vals][1])
        ELSE LET window == SubSeq(vs, i - 1, i + 1)
                 w      == {window[j][1] : j \in 1..Len(window)}
             IN  IF HasNull(window) THEN "TypeError"
                 ELSE IF vs[i][1] = Max(w) THEN "up"
                 ELSE IF vs[i][1] = Min(w) THEN "down"
                 ELSE "up"

AnnotationValues == {None} \cup {Some(v) : v \in 1..3}

AnnInit ==
    /\ apc = "call"
    /\ \E n \in 1..MaxLen :
         /\ values \in SeqsOf(AnnotationValues, n)
         /\ index \in 1..n
    /\ direction = None

\* dir = self._get_annotation_direction(i, values)
CallAnnotationDirection ==
    /\ apc = "call"
    /\ LET d == GetAnnotationDirection(index, values)
       IN  /\ direction' = Some(d)
           /\ apc' = IF d \in {"TypeError", "IndexError"} THEN "raised" ELSE "returned"
    /\ UNCHANGED <<values, index>>
    /\ UNCHANGED exceptAnn

\* ------------------------------------ SerialChart._add_data, type "line"
\* the values of a series are a numpy array of floats, a null point is nan
\* (None here): every comparison with nan is false
NanLt(a, b) == a # None /\ b # None /\ a[1] < b[1]
NanGt(a, b) == a # None /\ b # None /\ a[1] > b[1]
NanLe(a, b) == a # None /\ b # None /\ a[1] <= b[1]
NanEq(a, b) == a # None /\ b # None /\ a[1] = b[1]

\* Python's max(): the first item, replaced by each later item that is greater
RECURSIVE PyMax(_)
PyMax(s) ==
    IF Len(s) = 1 THEN s[1]
    ELSE LET m == PyMax(SubSeq(s, 1, Len(s) - 1))
         IN  IF NanGt(s[Len(s)], m) THEN s[Len(s)] ELSE m

\* Python's min(): the first item, replaced by each later item that is smaller
RECURSIVE PyMin(_)
PyMin(s) ==
    IF Len(s) = 1 THEN s[1]
    ELSE LET m == PyMin(SubSeq(s, 1, Len(s) - 1))
         IN  IF NanLt(s[Len(s)], m) THEN s[Len(s)] ELSE m

\* lines 415-422: several values highlighted at the same date
HighlightOverride(hv, hvs) ==
    IF NanEq(hv, PyMax(hvs)) THEN "up"
    ELSE IF NanEq(hv, PyMin(hvs)) THEN "down"
    ELSE "left"

\* _get_annotation_direction applied to a numpy array; i counts from 1
ArrayAnnotationDirection(i, vs) ==
    LET num_vals == Len(vs)
    IN  IF num_vals < 2 THEN "up"
        ELSE IF i = 1
        THEN IF NanLt(vs[1], vs[2]) THEN "down" ELSE "up"
        ELSE IF i = num_vals
        THEN IF NanLe(vs[num_vals - 1], vs[num_vals]) THEN "up" ELSE "down"
        ELSE LET window == SubSeq(vs, i - 1, i + 1)
             IN  IF NanEq(vs[i], PyMax(window)) THEN "up"
                 ELSE IF NanEq(vs[i], PyMin(window)) THEN "down"
                 ELSE "up"

\* lines 423-433: a single highlighted value; dates and values are the
\* variables the loop over the series left behind
SingleHighlightDirection(date, vs) ==
    IF date <= Len(vs) THEN Some(ArrayAnnotationDirection(date, vs)) ELSE None

LineInit ==
    /\ lpc = "plot"
    /\ line_n_series \in 1..MaxLines
    /\ highlight_date \in 1..MaxPoints
    /\ line_serie_i = 0
    /\ line_values = <<>>
    /\ highlight_values = <<>>
    /\ highlight_dirs = <<>>
    /\ line_series = <<>>

\* lines 241-252: one pass of the loop over the series
PlotLine ==
    /\ lpc = "plot"
    /\ line_serie_i < line_n_series
    /\ \E n \in 1..MaxPoints : \E vs \in SeqsOf(AnnotationValues, n) :
         /\ line_values' = vs
         /\ line_series' = Append(line_series, vs)
         /\ highlight_values' = IF highlight_date <= n
                                THEN Append(highlight_values, vs[highlight_date])
                                ELSE highlight_values
    /\ line_serie_i' = line_serie_i + 1
    /\ UNCHANGED <<lpc, line_n_series, highlight_date, highlight_dirs>>
    /\ UNCHANGED exceptLine

\* lines 405-434: annotate the highlighted points
AnnotateHighlights ==
    /\ lpc = "plot"
    /\ line_serie_i = line_n_series
    /\ highlight_dirs' =
         [k \in 1..Len(highlight_values) |->
            IF Len(highlight_values) > 1
            THEN Some(HighlightOverride(highlight_values[k], highlight_values))
            ELSE SingleHighlightDirection(highlight_date, line_values)]
    /\ lpc' = "done"
    /\ UNCHANGED <<line_n_series, highlight_date, line_serie_i, line_values,
                   highlight_values, line_series>>
    /\ UNCHANGED exceptLine

\* ------------------------------------------------------------- locator.py
\* YearLocator(base), MonthLocator(), DayLocator()
YearLocator(base) == [kind |-> "year", base |-> base]
MonthLocator == [kind |-> "month", base |-> 1]
DayLocator == [kind |-> "day", base |-> 1]

\* lines 43-50: yearly ticks, thinned by the number of points
YearThinningInclusive(pts) ==
    IF pts >= 20 THEN YearLocator(10)
    ELSE IF pts >= 10 THEN YearLocator(5)
    ELSE IF pts >= 5 THEN YearLocator(2)
    ELSE YearLocator(1)

YearThinning(pts) ==
    IF pts > 20 THEN YearLocator(10)
    ELSE IF pts > 10 THEN YearLocator(5)
    ELSE IF pts > 5 THEN YearLocator(2)
    ELSE YearLocator(1)

\* get_best_locator(delta, points)
GetBestLocator(days, pts) ==
    IF days > 365 * 150 THEN YearLocator(100)
    ELSE IF days > 365 * 45 THEN YearLocator(20)
    ELSE IF days > 365 THEN YearThinning(pts)
    ELSE IF days > 30 THEN MonthLocator
    ELSE DayLocator

\* the spans (in days) and point counts get_best_locator is called with
DeltaDays == {0 - 5, 0, 1, 30, 31, 40, 365, 366, 730, 365 * 45, 365 * 45 + 1,
              365 * 150, 365 * 150 + 1, 365 * 1000}
PointCounts == {0, 1, 3, 5, 6, 10, 11, 20, 21, 30}

LocInit ==
    /\ kpc = "call"
    /\ delta_days \in DeltaDays
    /\ points \in PointCounts
    /\ locator = None

\* locator = get_best_locator(delta, points)
CallGetBestLocator ==
    /\ kpc = "call"
    /\ locator' = Some(GetBestLocator(delta_days, points))
    /\ kpc' = "returned"
    /\ UNCHANGED <<delta_days, points>>
    /\ UNCHANGED exceptLoc

\* line 15: years = sorted(list(set([y.year for y in dates])))
Years(ds) == Ascending({ds[i][1] : i \in 1..Len(ds)})

\* line 23: int(x * cuts), with cuts = len(years) / (max_ticks - 2 + 1)
CutIndexFromOne(x, n, m) == ((x + 1) * n) \div (m - 1)

CutIndex(x, n, m) == (x * n) \div (m - 1)

\* get_year_ticks(dates, max_ticks); error when years[...] is out of range
GetYearTicks(ds, mt) ==
    LET years == Years(ds)
        n     == Len(years)
        m     == Min({mt, n})
        idx   == [x \in 0..(m - 2) |-> CutIndex(x, n, m)]
    IN  IF \E x \in 0..(m - 2) : idx[x] >= n
        THEN [error |-> "IndexError", ticks |-> <<>>]
        ELSE [error |-> "",
              ticks |-> [k \in 1..(IF m > 0 THEN m ELSE 0) |->
                           IF k <= m - 1 THEN <<years[idx[k - 1] + 1], 1, 1>>
                           ELSE <<years[n], 1, 1>>]]

\* the dates of the data: first days of five years and two days inside a year
DateSet == {<<y, 1, 1>> : y \in 2000..2004} \cup {<<2001, 6, 15>>}

YearInit ==
    /\ ypc = "call"
    /\ \E n \in 1..MaxDates : dates \in SeqsOf(DateSet, n)
    /\ max_ticks \in 1..MaxTickCount
    /\ selected_dates = <<>>

\* selected_dates = get_year_ticks(dates, max_ticks)
CallGetYearTicks ==
    /\ ypc = "call"
    /\ LET r == GetYearTicks(dates, max_ticks)
       IN  IF r.error # ""
           THEN /\ ypc' = "raised"
                /\ UNCHANGED selected_dates
           ELSE /\ ypc' = "returned"
                /\ selected_dates' = r.ticks
    /\ UNCHANGED <<dates, max_ticks>>
    /\ UNCHANGED exceptYear

\* ------------------------------- SerialChart._add_data: value axis limits
\* the numbers the data, the baseline and ymin / ymax are drawn from
DataValues == (0 - 3)..6
Baselines == {0 - 2, 0, 2}
YminSettings == {None, Some(0 - 1), Some(1), Some(4)}
YmaxSettings == {None, Some(5)}

\* lines 499-504: is the axis cut at the smallest value?
BreakAxis(min_val, max_val, base) == (max_val - min_val) < min_val

\* lines 493-511: local ymin
LocalYmin(set_ymin, min_val, max_val, base, allow) ==
    IF set_ymin # None THEN Min({set_ymin[1], min_val})
    ELSE IF min_val > base /\ allow
    THEN IF BreakAxis(min_val, max_val, base) THEN min_val ELSE base
    ELSE IF min_val < base THEN min_val
    ELSE base

\* lines 492-511: padding_bottom, in hundredths
PaddingBottom(set_ymin, min_val, max_val, base, allow) ==
    IF set_ymin # None THEN Abs(Min({set_ymin[1], min_val}) * 15)
    ELSE IF min_val > base /\ allow
    THEN IF BreakAxis(min_val, max_val, base) THEN Abs(min_val * 15) ELSE 0
    ELSE IF min_val < base THEN Abs((0 - min_val) * 15)
    ELSE 0

\* lines 513-522: local ymax and padding_top, in hundredths
LocalYmax(set_ymax, max_val) == IF set_ymax # None THEN set_ymax[1] ELSE max_val
PaddingTop(set_ymax, max_val) == IF set_ymax # None THEN 0 ELSE max_val * 15

AxisInit ==
    /\ vpc = "limits"
    /\ data_min \in DataValues
    /\ data_max \in {v \in DataValues : v >= data_min}
    /\ axis_baseline \in Baselines
    /\ allow_broken_y_axis \in BOOLEAN
    /\ chart_ymin \in YminSettings
    /\ chart_ymax \in YmaxSettings
    /\ ymin = None
    /\ ylim = None
    /\ broken_axis = FALSE

\* lines 491-531: set the limits of the value axis, mark a broken axis
SetValueAxisLimits ==
    /\ vpc = "limits"
    /\ LET lo == LocalYmin(chart_ymin, data_min, data_max, axis_baseline,
                           allow_broken_y_axis)
           pb == PaddingBottom(chart_ymin, data_min, data_max, axis_baseline,
                               allow_broken_y_axis)
           hi == LocalYmax(chart_ymax, data_max)
           pt == PaddingTop(chart_ymax, data_max)
       IN  /\ ymin' = Some(lo)
           /\ ylim' = Some(<<lo * 100 - pb, hi * 100 + pt>>)
           /\ broken_axis' = (lo > axis_baseline /\ allow_broken_y_axis)
    /\ vpc' = "done"
    /\ UNCHANGED <<data_min, data_max, axis_baseline, allow_broken_y_axis,
                   chart_ymin, chart_ymax>>
    /\ UNCHANGED exceptAxis

\* -------------------------------------- Chart: the canvas size in layout
\* the figure as matplotlib creates it, before _set_size (6.4 x 4.8 inches)
DefaultFigSize == <<640, 480>>

\* the sizes charts are requested at, and the widths of logo images
RequestedSizes == {<<613, Some(409)>>, <<800, None>>, <<400, Some(300)>>}
LogoWidths == {100, 300}

\* _get_height(w): 1:1 by default
GetHeight(w) == w

\* _set_size(w, h=None): the height is kept when h is None
SetSize(size, w, h) == <<w, IF h = None THEN size[2] ELSE h[1]>>

\* lines 527-535: the width the logo is scaled to
LogoWidth(im_width, w, f) == Min({im_width, 155 * f, (w * f) \div 4})

\* lines 539-546: the horizontal room left for the caption beside the logo
CaptionHextent(im_width, w, f, is_rtl) ==
    IF is_rtl THEN <<LogoWidth(im_width, w, f), w * f>>
    ELSE <<0, w * f - LogoWidth(im_width, w, f)>>

\* _add_caption, line 275: the width the canvas has after the text is wrapped
WidthLeftNarrow(w, hextent) == hextent[2] - hextent[1]

WidthAfterWrap(w, hextent) == w

LayoutInit ==
    /\ gpc = "size"
    /\ \E rs \in RequestedSizes :
         /\ requested_width = rs[1]
         /\ requested_height = rs[2]
    /\ factor \in {1, 2}
    /\ title \in BOOLEAN
    /\ subtitle \in BOOLEAN
    /\ note \in BOOLEAN
    /\ caption \in BOOLEAN
    /\ logo \in {None} \cup {Some(w) : w \in LogoWidths}
    /\ rtl \in (IF logo = None THEN {FALSE} ELSE BOOLEAN)
    /\ fig_size = DefaultFigSize
    /\ caption_hextent = None
    /\ image_size = None

\* lines 445-452: self._set_size(self._w, h)
CalculateSize ==
    /\ gpc = "size"
    /\ LET h == IF requested_height = None THEN GetHeight(requested_width)
                ELSE requested_height[1]
       IN  fig_size' = SetSize(fig_size, requested_width, Some(h))
    /\ gpc' = "title"
    /\ UNCHANGED <<requested_width, requested_height, factor, title, subtitle,
                   note, caption, logo, rtl, caption_hextent, image_size>>
    /\ UNCHANGED exceptLayout

\* lines 506-507, _add_title: no change of size
AddTitle ==
    /\ gpc = "title"
    /\ gpc' = "subtitle"
    /\ UNCHANGED <<requested_width, requested_height, factor, title, subtitle,
                   note, caption, logo, rtl, fig_size, caption_hextent,
                   image_size>>
    /\ UNCHANGED exceptLayout

\* lines 508-509, _add_subtitle: ends with self._set_size(self._w)
AddSubtitle ==
    /\ gpc = "subtitle"
    /\ fig_size' = IF subtitle THEN SetSize(fig_size, requested_width, None)
                   ELSE fig_size
    /\ gpc' = "logo"
    /\ UNCHANGED <<requested_width, requested_height, factor, title, subtitle,
                   note, caption, logo, rtl, caption_hextent, image_size>>
    /\ UNCHANGED exceptLayout

\* lines 511-547: tight_layout, then the logo and the room left beside it
AddLogo ==
    /\ gpc = "logo"
    /\ caption_hextent' =
         IF logo = None THEN None
         ELSE Some(CaptionHextent(logo[1], requested_width, factor, rtl))
    /\ gpc' = "caption"
    /\ UNCHANGED <<requested_width, requested_height, factor, title, subtitle,
                   note, caption, logo, rtl, fig_size, image_size>>
    /\ UNCHANGED exceptLayout

\* lines 549-551, _add_caption: the canvas is narrowed to wrap the text, then
\* set to self._w again
AddCaption ==
    /\ gpc = "caption"
    /\ LET hextent == IF caption_hextent = None THEN <<0, requested_width>>
                      ELSE caption_hextent[1]
           narrow  == SetSize(fig_size, hextent[2] - hextent[1], None)
       IN  fig_size' = IF caption
                       THEN SetSize(narrow,
                                    WidthAfterWrap(requested_width, hextent),
                                    None)
                       ELSE fig_size
    /\ gpc' = "note"
    /\ UNCHANGED <<requested_width, requested_height, factor, title, subtitle,
                   note, caption, logo, rtl, caption_hextent, image_size>>
    /\ UNCHANGED exceptLayout

\* lines 553-586, _add_note (ends with self._set_size(self._w)), then the
\* margins: subplots_adjust does not change the size
AddNote ==
    /\ gpc = "note"
    /\ fig_size' = IF note THEN SetSize(fig_size, requested_width, None)
                   ELSE fig_size
    /\ gpc' = "encode"
    /\ UNCHANGED <<requested_width, requested_height, factor, title, subtitle,
                   note, caption, logo, rtl, caption_hextent, image_size>>
    /\ UNCHANGED exceptLayout

\* render, lines 637-670: savefig with dpi = self._fig.dpi * factor
Savefig ==
    /\ gpc = "encode"
    /\ image_size' = Some(<<fig_size[1] * factor, fig_size[2] * factor>>)
    /\ gpc' = "done"
    /\ UNCHANGED <<requested_width, requested_height, factor, title, subtitle,
                   note, caption, logo, rtl, fig_size, caption_hextent>>
    /\ UNCHANGED exceptLayout

\* ------------------------------------- Chart.render and Chart.render_all
\* Chart.file_types, and the formats render is called with
FileTypes == <<"png", "dw", "svg">>
RenderFormats == {"png", "svg"}

\* render_all, lines 681-683: "dw" is skipped
IsImageFormat(f) == f # "dw"

\* the statements of _apply_changes_before_rendering and render, in order
NextPassLabelsFirst(p) ==
    CASE p = "data" -> "size"
      [] p = "size" -> "ticks"
      [] p = "ticks" -> "labels"
      [] p = "labels" -> "annotate"
      [] p = "annotate" -> "fit"
      [] p = "fit" -> "encode"

NextPass(p) ==
    CASE p = "data" -> "size"
      [] p = "size" -> "ticks"
      [] p = "ticks" -> "annotate"
      [] p = "annotate" -> "labels"
      [] p = "labels" -> "fit"
      [] p = "fit" -> "encode"

\* SerialChart._add_data, lines 196-207: every series is parsed, and checked
\* for a repeated timepoint, before the first one is plotted
SeriesPlottedUntilOffending(dup) == dup - 1

SeriesPlottedBeforeRaise(dup) == 0

\* SerialChart._add_data on the figure: each series plotted once more, and
\* one annotation for each highlighted point
AddDataElems(e, k) ==
    [e EXCEPT !.plots = @ + k * r_series,
              !.annotations = @ + (IF r_highlight THEN k * r_series ELSE 0)]

\* what k calls of _add_data add to the passes of this call
RECURSIVE AddDataPasses(_)
AddDataPasses(k) ==
    IF k = 0 THEN <<>>
    ELSE (IF r_highlight THEN <<"data", "highlight">> ELSE <<"data">>)
         \o AddDataPasses(k - 1)

\* lines 469-483: the numbers of times the loop can run, as the drawn tick
\* labels decide
Escalations ==
    IF r_decimals # None THEN {0}
    ELSE {k \in 0..(MaxDecimals + 1) : \A j \in 1..(k - 1) : ~GiveUp(j)}

\* the chart as a call leaves it
Snapshot(e, d, i, c) == [elems |-> e, decimals |-> d, interval |-> i, canvas |-> c]

RenderInit ==
    /\ rpc = "ready"
    /\ method = ""
    /\ todo = <<>>
    /\ r_series \in 0..MaxSeries
    /\ dup_serie \in 0..r_series
    /\ r_highlight \in (IF r_series = 0 THEN {FALSE} ELSE BOOLEAN)
    /\ r_decimals \in {None, Some(0)}
    /\ r_interval = None
    /\ r_show_ticks \in BOOLEAN
    /\ r_texts \in BOOLEAN
    /\ r_annotations \in 0..1
    /\ elems = [plots |-> 0, annotations |-> 0, titles |-> 0, texts |-> 0]
    /\ canvas = DefaultFigSize
    /\ plotted = 0
    /\ passes = <<>>
    /\ saved = {}
    /\ r_error = None
    /\ calls = <<>>
    /\ first = None

\* chart.render(key, img_format) or chart.render_all(key)
StartRender ==
    /\ rpc = "ready"
    /\ Len(calls) < MaxRenders
    /\ \E m \in {"render", "render_all"} : \E f \in RenderFormats :
         /\ method' = m
         /\ todo' = IF m = "render" THEN <<f>>
                    ELSE SelectSeq(FileTypes, IsImageFormat)
    /\ rpc' = "data"
    /\ plotted' = 0
    /\ passes' = <<>>
    /\ saved' = {}
    /\ UNCHANGED <<r_series, dup_serie, r_highlight, r_decimals, r_interval,
                   r_show_ticks, r_texts, r_annotations, elems, canvas,
                   r_error, calls, first>>
    /\ UNCHANGED exceptRender

\* lines 441-442: if len(self.data): self._add_data()
PlotData ==
    /\ rpc = "data"
    /\ IF r_series = 0
       THEN /\ rpc' = NextPass("data")
            /\ UNCHANGED <<elems, plotted, passes, r_interval, r_error>>
       ELSE IF dup_serie # 0
       THEN \* raise ValueError(f"Duplicated timepoints: ...")
            /\ rpc' = "raised"
            /\ r_error' = Some("ValueError")
            /\ plotted' = plotted + SeriesPlottedBeforeRaise(dup_serie)
            /\ elems' = [elems EXCEPT
                            !.plots = @ + SeriesPlottedBeforeRaise(dup_serie)]
            /\ passes' = Append(passes, "data")
            /\ UNCHANGED r_interval
       ELSE /\ rpc' = NextPass("data")
            /\ elems' = AddDataElems(elems, 1)
            /\ plotted' = plotted + r_series
            /\ passes' = passes \o AddDataPasses(1)
            /\ r_interval' = IF r_interval = None THEN Some("guessed")
                             ELSE r_interval
            /\ UNCHANGED r_error
    /\ UNCHANGED <<method, todo, r_series, dup_serie, r_highlight, r_decimals,
                   r_show_ticks, r_texts, r_annotations, canvas, saved, calls,
                   first>>
    /\ UNCHANGED exceptRender

\* lines 445-452: the size of the canvas
SizePass ==
    /\ rpc = "size"
    /\ canvas' = <<613, 409>>
    /\ passes' = Append(passes, "size")
    /\ rpc' = NextPass("size")
    /\ UNCHANGED <<method, todo, r_series, dup_serie, r_highlight, r_decimals,
                   r_interval, r_show_ticks, r_texts, r_annotations, elems,
                   plotted, saved, r_error, calls, first>>
    /\ UNCHANGED exceptRender

\* lines 461-498: tick/decimal resolution; each run of the loop sets decimals
\* and calls _add_data again; min() of no ticks raises when decimals is 0
TickPass ==
    /\ rpc = "ticks"
    /\ IF ~r_show_ticks
       THEN /\ rpc' = NextPass("ticks")
            /\ passes' = Append(passes, "ticks")
            /\ UNCHANGED <<r_decimals, elems, plotted, r_error>>
       ELSE \E k \in Escalations :
              /\ r_decimals' = IF k = 0 THEN r_decimals ELSE Some(k)
              /\ elems' = IF r_series > 0 THEN AddDataElems(elems, k) ELSE elems
              /\ plotted' = plotted + k * r_series
              /\ passes' = Append(passes, "ticks")
                             \o (IF r_series > 0 THEN AddDataPasses(k) ELSE <<>>)
              /\ \E fails \in (IF r_decimals' = Some(0) THEN BOOLEAN ELSE {FALSE}) :
                   IF fails
                   THEN rpc' = "raised" /\ r_error' = Some("ValueError")
                   ELSE rpc' = NextPass("ticks") /\ UNCHANGED r_error
    /\ UNCHANGED <<method, todo, r_series, dup_serie, r_highlight, r_interval,
                   r_show_ticks, r_texts, r_annotations, canvas, saved, calls,
                   first>>
    /\ UNCHANGED exceptRender

\* lines 500-501: for a in self.annotations: self._annotate_point(...)
AnnotatePass ==
    /\ rpc = "annotate"
    /\ elems' = [elems EXCEPT !.annotations = @ + r_annotations]
    /\ passes' = Append(passes, "annotate")
    /\ rpc' = NextPass("annotate")
    /\ UNCHANGED <<method, todo, r_series, dup_serie, r_highlight, r_decimals,
                   r_interval, r_show_ticks, r_texts, r_annotations, canvas,
                   plotted, saved, r_error, calls, first>>
    /\ UNCHANGED exceptRender

\* lines 502-554: labels, title (fig.suptitle keeps one title element),
\* subtitle, caption and note (fig.text adds an element each)
LabelPass ==
    /\ rpc = "labels"
    /\ elems' = IF r_texts
                THEN [elems EXCEPT !.titles = 1, !.texts = @ + 3]
                ELSE elems
    /\ passes' = Append(passes, "labels")
    /\ rpc' = NextPass("labels")
    /\ UNCHANGED <<method, todo, r_series, dup_serie, r_highlight, r_decimals,
                   r_interval, r_show_ticks, r_texts, r_annotations, canvas,
                   plotted, saved, r_error, calls, first>>
    /\ UNCHANGED exceptRender

\* lines 556-586: fit the header and the area below the chart
FitPass ==
    /\ rpc = "fit"
    /\ passes' = Append(passes, "fit")
    /\ rpc' = NextPass("fit")
    /\ UNCHANGED <<method, todo, r_series, dup_serie, r_highlight, r_decimals,
                   r_interval, r_show_ticks, r_texts, r_annotations, elems,
                   canvas, plotted, saved, r_error, calls, first>>
    /\ UNCHANGED exceptRender

\* render 637-670, render_all 685-719: savefig into a buffer; it can fail
Encode ==
    /\ rpc = "encode"
    /\ passes' = Append(passes, "encode")
    /\ \E ok \in BOOLEAN :
         IF ok THEN rpc' = "save" /\ UNCHANGED r_error
         ELSE rpc' = "raised" /\ r_error' = Some("EncodeError")
    /\ UNCHANGED <<method, todo, r_series, dup_serie, r_highlight, r_decimals,
                   r_interval, r_show_ticks, r_texts, r_annotations, elems,
                   canvas, plotted, saved, calls, first>>
    /\ UNCHANGED exceptRender

\* render 671-672, render_all 720-721: self._storage.save(key, buf, format);
\* it can fail; the call returns after the last format
Save ==
    /\ rpc = "save"
    /\ passes' = Append(passes, "save")
    /\ \E ok \in BOOLEAN :
         IF ok
         THEN /\ saved' = saved \cup {Head(todo)}
              /\ todo' = Tail(todo)
              /\ UNCHANGED r_error
              /\ IF Tail(todo) = <<>>
                 THEN /\ rpc' = "ready"
                      /\ calls' = Append(calls, method)
                      /\ first' = IF calls = <<>>
                                  THEN Some(Snapshot(elems, r_decimals,
                                                     r_interval, canvas))
                                  ELSE first
                 ELSE /\ rpc' = "encode"
                      /\ UNCHANGED <<calls, first>>
         ELSE /\ rpc' = "raised"
              /\ r_error' = Some("StorageError")
              /\ UNCHANGED <<saved, todo, calls, first>>
    /\ UNCHANGED <<method, r_series, dup_serie, r_highlight, r_decimals,
                   r_interval, r_show_ticks, r_texts, r_annotations, elems,
                   canvas, plotted>>
    /\ UNCHANGED exceptRender

\* --------------------------------------------------------- Chart.init_from
\* a mapping is a function from its keys; every value is a sequence of
\* strings (None is the empty one)
EmptyDict == [k \in {} |-> None]

\* the keys a settings object is given with, besides width, and their values
OptionalKeys == {"height", "decimals", "ax", "title", "units", "data",
                 "ticks", "_w", "foo"}
ArgValues(k) ==
    CASE k = "height" -> {<<"409">>}
      [] k = "units" -> {<<"percent">>, <<"count">>, <<"bogus">>}
      [] k = "data" -> {<<>>, <<"serie">>}
      [] OTHER -> {<<"x">>}

RECURSIVE ArgDicts(_)
ArgDicts(ks) ==
    IF ks = {} THEN {("width" :> <<"613">>) @@ EmptyDict}
    ELSE LET k == CHOOSE x \in ks : TRUE
             rest == ArgDicts(ks \ {k})
         IN  rest \cup {(k :> v) @@ d : d \in rest, v \in ArgValues(k)}

\* cls(width, height): vars(chart) of a chart as constructed
Constructed(width, height) ==
    [a \in {"data", "decimals", "ax", "_title", "_units", "_w",
            "requested_width", "requested_height"} |->
        CASE a = "data" -> <<>>
          [] a = "decimals" -> None
          [] a = "ax" -> <<"axes">>
          [] a = "_title" -> None
          [] a = "_units" -> <<"number">>
          [] a = "_w" -> width
          [] a = "requested_width" -> width
          [] a = "requested_height" -> height]

\* k.startswith("_")
NeverPrivate(k) == FALSE

StartsWithUnderscore(k) == k \in {"_w", "_title", "_units"}

\* line 602: the keys that are set through setters or appended
HandledKeys == {"data", "labels", "ymin", "ymax", "title", "units"}

\* the units setter: the value stored, or None for a ValueError
UnitsSetter(val) ==
    IF val = <<"count">> THEN <<"number">>
    ELSE IF val \in {<<"number">>, <<"percent">>, <<"degrees">>} THEN val
    ELSE None

\* init_from(args): the error raised, or the attributes of the chart
InitFrom(a) ==
    IF ~({"width", "height"} \subseteq DOMAIN a)
    THEN [error |-> "Exception", chart |-> None]
    ELSE LET c0 == Constructed(a["width"], a["height"])
             set == {k \in DOMAIN a : /\ ~StartsWithUnderscore(k)
                                      /\ k \in DOMAIN c0
                                      /\ k \notin HandledKeys}
             c1 == [x \in DOMAIN c0 |-> IF x \in set THEN a[x] ELSE c0[x]]
             c2 == IF "data" \in DOMAIN a
                   THEN [c1 EXCEPT !["data"] = @ \o a["data"]] ELSE c1
             c3 == IF "title" \in DOMAIN a
                   THEN [c2 EXCEPT !["_title"] = a["title"]] ELSE c2
             c4 == IF "units" \in DOMAIN a
                   THEN [c3 EXCEPT !["_units"] = UnitsSetter(a["units"])] ELSE c3
             c5 == IF "ticks" \in DOMAIN a
                   THEN ("ticks" :> a["ticks"]) @@ c4 ELSE c4
         IN  IF "units" \in DOMAIN a /\ UnitsSetter(a["units"]) = None
             THEN [error |-> "ValueError", chart |-> None]
             ELSE [error |-> "", chart |-> Some(c5)]

InitFromInit ==
    /\ ipc = "call"
    /\ args \in ArgDicts(OptionalKeys)
    /\ args_given = args
    /\ chart = None

\* chart = Chart.init_from(args); data and labels are read from copies, so
\* args is left as it was
CallInitFrom ==
    /\ ipc = "call"
    /\ LET r == InitFrom(args)
       IN  /\ chart' = r.chart
           /\ ipc' = IF r.error = "" THEN "returned" ELSE "raised"
    /\ UNCHANGED <<args, args_given>>
    /\ UNCHANGED exceptInitFrom

\* -------------------------------------------------------------- Chart.units
\* the classes of chart objects
ChartClasses == {"Chart", "SerialChart", "DatawrapperChart"}

\* self._units as __init__ leaves it: chart.py 81, datawrapper.py 48
InitialUnits(cls) ==
    IF cls = "DatawrapperChart" THEN <<"count">> ELSE <<"number">>

\* the values a caller assigns to units
UnitsValues == {<<"number">>, <<"percent">>, <<"degrees">>, <<"count">>,
                <<"bogus">>, <<"">>}

UnitsInit ==
    /\ ucls \in ChartClasses
    /\ chart_units = InitialUnits(ucls)
    /\ units_before = InitialUnits(ucls)
    /\ units_val = None
    /\ units_error = None
    /\ units_sets = 0

\* chart.units = val
SetUnits ==
    /\ units_sets < MaxUnitSets
    /\ \E val \in UnitsValues :
         /\ units_val' = Some(val)
         /\ IF UnitsSetter(val) = None
            THEN /\ units_error' = Some("ValueError")
                 /\ UNCHANGED chart_units
            ELSE /\ units_error' = None
                 /\ chart_units' = UnitsSetter(val)
    /\ units_before' = chart_units
    /\ units_sets' = units_sets + 1
    /\ UNCHANGED ucls
    /\ UNCHANGED exceptUnits

\* ---------------------------------------------------- DatawrapperChart.render
\* the statuses a remote call may return
Statuses == {200, 201, 304, 404, 500}

\* what the body of a response may be: json with an id, json without, no json
Bodies == {"id", "json", "text"}

\* r.raise_for_status(): an HTTPError for the client and server error statuses
RaiseOnServerErrorOnly(status) == status >= 500

RaiseForStatus(status) == status >= 400 /\ status < 600

\* _prepare_dw_data and _apply_highlight: "" or the error raised
PrepareDwData(a) ==
    IF a.caption /\ ~a.metadata THEN "KeyError"
    ELSE IF ~a.highlight THEN ""
    ELSE IF a.type = "" THEN "KeyError"
    ELSE IF a.type = "d3-lines" THEN ""
    ELSE "NotImplementedError"

DwInit ==
    /\ dpc = "prepare"
    /\ dw_attrs \in [caption : BOOLEAN, metadata : BOOLEAN,
                      highlight : BOOLEAN, type : {"", "d3-lines", "d3-bars"}]
    /\ dw_calls = <<>>
    /\ dw_saved = 0
    /\ dw_error = ""

DwAbort(err) ==
    /\ dpc' = "raised"
    /\ dw_error' = err

\* dw_data = self._prepare_dw_data(self.dw_data)
DwPrepare ==
    /\ dpc = "prepare"
    /\ IF PrepareDwData(dw_attrs) # ""
       THEN DwAbort(PrepareDwData(dw_attrs))
       ELSE dpc' = "create" /\ UNCHANGED dw_error
    /\ UNCHANGED <<dw_attrs, dw_calls, dw_saved>>
    /\ UNCHANGED exceptDw

\* r = requests.post(url, ...); r.raise_for_status(); r.json()["id"]
DwCreate ==
    /\ dpc = "create"
    /\ \E status \in Statuses, body \in Bodies :
         /\ dw_calls' = Append(dw_calls, [call |-> "create", status |-> status])
         /\ IF RaiseForStatus(status) THEN DwAbort("HTTPError")
            ELSE IF body = "text" THEN DwAbort("JSONDecodeError")
            ELSE IF body = "json" THEN DwAbort("KeyError")
            ELSE dpc' = "fetch" /\ UNCHANGED dw_error
    /\ UNCHANGED <<dw_attrs, dw_saved>>
    /\ UNCHANGED exceptDw

\* r = requests.get(url, ...); print(r.json())
DwFetch ==
    /\ dpc = "fetch"
    /\ \E status \in Statuses, body \in Bodies :
         /\ dw_calls' = Append(dw_calls, [call |-> "fetch", status |-> status])
         /\ IF body = "text" THEN DwAbort("JSONDecodeError")
            ELSE dpc' = "upload" /\ UNCHANGED dw_error
    /\ UNCHANGED <<dw_attrs, dw_saved>>
    /\ UNCHANGED exceptDw

\* r = requests.put(url, ...); r.raise_for_status()
DwUpload ==
    /\ dpc = "upload"
    /\ \E status \in Statuses :
         /\ dw_calls' = Append(dw_calls, [call |-> "upload", status |-> status])
         /\ IF RaiseForStatus(status) THEN DwAbort("HTTPError")
            ELSE dpc' = "export" /\ UNCHANGED dw_error
    /\ UNCHANGED <<dw_attrs, dw_saved>>
    /\ UNCHANGED exceptDw

\* r = requests.get(url, ..., stream=True); r.raise_for_status()
DwExport ==
    /\ dpc = "export"
    /\ \E status \in Statuses :
         /\ dw_calls' = Append(dw_calls, [call |-> "export", status |-> status])
         /\ IF RaiseForStatus(status) THEN DwAbort("HTTPError")
            ELSE dpc' = "save" /\ UNCHANGED dw_error
    /\ UNCHANGED <<dw_attrs, dw_saved>>
    /\ UNCHANGED exceptDw

\* self._storage.save(key, buf, img_format)
DwSave ==
    /\ dpc = "save"
    /\ dw_saved' = dw_saved + 1
    /\ dpc' = "returned"
    /\ UNCHANGED <<dw_attrs, dw_calls, dw_error>>
    /\ UNCHANGED exceptDw

\* ------------------------------------------------------------- x tick step
\* a date: its ISO text, year, month, ISO week and day number from 2016-01-01
XDate(iso, y, m, w, ord) == [iso |-> iso, y |-> y, m |-> m, w |-> w, ord |-> ord]

XDateSet ==
    {XDate("2016-01-01", 2016, 1, 53, 0), XDate("2016-01-02", 2016, 1, 53, 1),
     XDate("2016-01-20", 2016, 1, 3, 19), XDate("2016-02-01", 2016, 2, 5, 31),
     XDate("2016-04-01", 2016, 4, 13, 91), XDate("2017-01-01", 2017, 1, 52, 366),
     XDate("2018-01-01", 2018, 1, 1, 731), XDate("2076-01-01", 2076, 1, 1, 21915),
     XDate("3016-01-01", 3016, 1, 1, 365242)}

\* the x points a chart can hold: distinct dates, ascending
XPointLists ==
    UNION {{ds \in SeqsOf(XDateSet, n) :
              \A i \in 1..(n - 1) : ds[i].ord < ds[i + 1].ord} : n \in 1..MaxXPoints}

Intervals == {"yearly", "quarterly", "monthly", "weekly", "daily"}

\* len(xs) > len(set(xs))
Repeats(xs) == Cardinality({xs[i] : i \in DOMAIN xs}) < Len(xs)

\* one round of the loop of _guess_interval
GuessSerie(interval, ds) ==
    IF Repeats([i \in DOMAIN ds |-> ds[i].y])
    THEN IF \A i \in DOMAIN ds : ds[i].m \in {1, 4, 7, 10}
         THEN "quarterly"
         ELSE IF Repeats([i \in DOMAIN ds |-> <<ds[i].y, ds[i].w>>]) THEN "daily"
         ELSE IF Repeats([i \in DOMAIN ds |-> <<ds[i].y, ds[i].m>>]) THEN "weekly"
         ELSE "monthly"
    ELSE interval

\* SerialChart._guess_interval
RECURSIVE GuessFrom(_, _)
GuessFrom(interval, data) ==
    IF data = <<>> THEN interval
    ELSE GuessFrom(GuessSerie(interval, Head(data)), Tail(data))

GuessInterval(data) == GuessFrom("yearly", data)

\* self.interval when the x tick step runs: SerialChart guesses a missing one
EffectiveInterval(cls, given, ds) ==
    IF given # None THEN given
    ELSE IF cls = "SerialChart" THEN Some(GuessInterval(<<ds>>))
    ELSE None

\* delta = xmax - xmin, in days
DeltaOf(ds) == ds[Len(ds)].ord - ds[1].ord

\* the label callback the step defines for an interval: "" when no branch
\* of the if-chain defines fmt
FmtOf(cls, interval) ==
    IF interval = Some("weekly") THEN "weekly"
    ELSE IF interval = Some("monthly") THEN "monthly"
    ELSE IF interval = Some("quarterly") /\ cls = "Chart" THEN "monthly"
    ELSE IF interval = Some("daily") THEN "daily"
    ELSE ""

\* elif delta.days > 500
YearTicksFirst(days) == days > 500

\* the x tick step: manual ticks, year ticks, or a locator and a callback
XTickStep(cls, manual, ds, interval) ==
    IF manual
    THEN [error |-> "", rule |-> "manual", locator |-> None, fmt |-> ""]
    ELSE IF YearTicksFirst(DeltaOf(ds))
    THEN [error |-> "", rule |-> "year_ticks", locator |-> None, fmt |-> "%Y"]
    ELSE [error |-> IF FmtOf(cls, interval) = "" THEN "UnboundLocalError"
                    ELSE "",
          rule |-> "best_locator",
          locator |-> Some(GetBestLocator(DeltaOf(ds), Len(ds))),
          fmt |-> FmtOf(cls, interval)]

\* formatter.date(d, pattern): the pattern and the date it is applied to
DateLabel(iso, pattern) == Some(<<pattern, iso>>)

\* if pos > len(self.data.x_points): return None
PastEndCheck(pos, n) == pos > n

\* fmt(x, pos): x the date of the tick, pos its index (from 0)
FmtLabel(cls, fmt, ds, x, pos) ==
    LET n == Len(ds)
        isos == {ds[i].iso : i \in DOMAIN ds}
    IN  IF fmt = "weekly" \/ (fmt = "daily" /\ cls = "SerialChart")
        THEN IF PastEndCheck(pos, n) THEN None
             ELSE IF pos + 1 > n THEN None        \* except IndexError
             ELSE DateLabel(ds[pos + 1].iso, "d MMM")
        ELSE IF fmt = "monthly"
        THEN IF x.iso \notin isos THEN None
             ELSE IF PastEndCheck(pos, n) THEN None
             ELSE IF n > 12 /\ x.m = 1 THEN DateLabel(x.iso, "MMM y")
             ELSE DateLabel(x.iso, "MMM")
        ELSE IF fmt = "daily"
        THEN IF PastEndCheck(pos, n) THEN None
             ELSE IF n > 7 THEN DateLabel(x.iso, "d MMM")
             ELSE IF pos = 0 THEN DateLabel(x.iso, "EE d/M")
             ELSE DateLabel(x.iso, "EEE")
        ELSE DateLabel(x.iso, fmt)                \* DateFormatter('%Y')

NoStep == [error |-> "", rule |-> "", locator |-> None, fmt |-> ""]

XTickInit ==
    /\ xpc = "call"
    /\ x_cls \in {"Chart", "SerialChart"}
    /\ x_manual \in BOOLEAN
    /\ x_points \in XPointLists
    /\ x_interval \in {None} \cup {Some(i) : i \in Intervals}
    /\ x_step = NoStep
    /\ x_tick = None
    /\ x_pos = 0
    /\ x_label = None

\* the x tick step of _add_data (SerialChart) or _set_date_ticks (Chart)
SetXTicks ==
    /\ xpc = "call"
    /\ x_step' = XTickStep(x_cls, x_manual, x_points,
                           EffectiveInterval(x_cls, x_interval, x_points))
    /\ xpc' = IF x_step'.error = "" THEN "set" ELSE "raised"
    /\ UNCHANGED <<x_cls, x_manual, x_points, x_interval, x_tick, x_pos, x_label>>
    /\ UNCHANGED exceptXTick

\* the axis asks the callback for the label of one tick
CallFmt ==
    /\ xpc = "set"
    /\ x_step.fmt # ""
    /\ x_tick = None
    /\ \E x \in XDateSet, pos \in 0..(Len(x_points) + 1) :
         /\ x_tick' = Some(x)
         /\ x_pos' = pos
         /\ x_label' = FmtLabel(x_cls, x_step.fmt, x_points, x, pos)
    /\ UNCHANGED <<xpc, x_cls, x_manual, x_points, x_interval, x_step>>
    /\ UNCHANGED exceptXTick

\* --------------------------------------------------- stacked bars: bottoms
StackValues == {None, Some(0 - 1), Some(1), Some(2)}

\* the data of a stacked bar chart: two or more series of the same timepoints
StackData ==
    UNION {[1..n_s -> SeqsOf(StackValues, n_p)] :
             n_s \in 2..MaxStackSeries, n_p \in 1..MaxStackPoints}

\* lines 203-207 with baseline 0: a missing value is plotted as 0
StackParse(data) ==
    [i \in DOMAIN data |->
       [j \in DOMAIN data[i] |-> IF data[i][j] = None THEN 0 ELSE data[i][j][1]]]

\* np.sign
Sign(x) == IF x > 0 THEN 1 ELSE IF x < 0 THEN 0 - 1 ELSE 0

\* np.cumsum(serie_values, axis=0)[i][j], series counted from 1
RECURSIVE CumValue(_, _, _)
CumValue(sv, i, j) == IF i = 0 THEN 0 ELSE sv[i][j] + CumValue(sv, i - 1, j)

\* lines 375-384: the bottom of the bar of series i at timepoint j
StackBottom(sv, i, j) ==
    IF i = 1 THEN 0
    ELSE IF Sign(sv[i][j]) # Sign(sv[i - 1][j]) THEN 0
    ELSE CumValue(sv, i - 1, j)

StackInit ==
    /\ spc = "plotting"
    /\ stack_data \in StackData
    /\ stack_i = 0
    /\ stack_bars = <<>>

\* one pass of the loop over the series: ax.bar(dates, values, bottom=...)
PlotStackedSerie ==
    /\ spc = "plotting"
    /\ stack_i < Len(stack_data)
    /\ LET sv == StackParse(stack_data)
           i == stack_i + 1
       IN  stack_bars' = Append(stack_bars,
               [j \in DOMAIN sv[i] |->
                  [bottom |-> StackBottom(sv, i, j), height |-> sv[i][j]]])
    /\ stack_i' = stack_i + 1
    /\ spc' = IF stack_i' = Len(stack_data) THEN "done" ELSE "plotting"
    /\ UNCHANGED stack_data
    /\ UNCHANGED exceptStack

\* ------------------------------------------------------- final margin fit
\* heights are kept in pixels: a relative height is pixels / self._h
CanvasHeights == {40, 100, 409, 600}
TextHeights == {0, 18, 60}
LogoHeights == {0, 40}

\* _title_rel_height * self._h
TitleHeight(e) == IF e.title > 0 THEN e.title + 30 ELSE 0

\* _subtitle_rel_height * self._h
SubtitleHeight(e) == IF e.subtitle > 0 THEN e.subtitle + 15 ELSE 0

\* _note_rel_height * self._h
NoteHeight(e) == IF e.note > 0 THEN e.note + 10 ELSE 0

\* _footer_rel_height * self._h
FooterHeight(e) ==
    (IF e.logo > e.caption THEN e.logo ELSE e.caption) + 15

\* lines 562-566: header_height * self._h
HeaderHeight(e) == TitleHeight(e) + SubtitleHeight(e)

\* lines 576-585: sub_canvas_height * self._h
SubCanvasHeight(e) == e.ticks + 30 + NoteHeight(e) + FooterHeight(e)

MarginInit ==
    /\ mpc = "fit"
    /\ m_h \in CanvasHeights
    /\ m_elems \in [title : TextHeights, subtitle : TextHeights,
                     note : TextHeights, caption : TextHeights,
                     logo : LogoHeights, ticks : TextHeights]
    /\ m_top = m_h
    /\ m_bottom = 0

\* lines 561-586: subplots_adjust(top=...), subplots_adjust(bottom=...);
\* the figure refuses a bottom that is not below the top (ValueError)
FitMargins ==
    /\ mpc = "fit"
    /\ m_top' = m_h - HeaderHeight(m_elems)
    /\ m_bottom' = SubCanvasHeight(m_elems)
    /\ mpc' = IF m_bottom' >= m_top' THEN "raised" ELSE "fitted"
    /\ UNCHANGED <<m_h, m_elems>>
    /\ UNCHANGED exceptMargin

\* ---------------------------------------------------------- specifications
\* the parts of the chart a specification does not exercise stay as constructed
TickIdle ==
    /\ pc = "idle" /\ show_ticks = TRUE /\ has_data = FALSE /\ units = "number"
    /\ decimals = None /\ caller_decimals = None /\ ticks = <<>>
    /\ ticks_fixed = FALSE /\ try_dec = 0
    /\ keep_trying = FALSE /\ tried = <<>> /\ add_data_calls = 0

BarIdle ==
    /\ bpc = "idle" /\ n_series = 0 /\ n_points = 0 /\ baseline = 0
    /\ highlight = None /\ color_fn = None /\ colors = None /\ labels = <<>>
    /\ serie_i = 0 /\ serie = <<>> /\ bars = <<>>

AnnIdle ==
    /\ apc = "idle" /\ values = <<>> /\ index = 0 /\ direction = None

LineIdle ==
    /\ lpc = "idle" /\ line_n_series = 0 /\ highlight_date = 0
    /\ line_serie_i = 0 /\ line_values = <<>> /\ highlight_values = <<>>
    /\ highlight_dirs = <<>> /\ line_series = <<>>

LocIdle ==
    /\ kpc = "idle" /\ delta_days = 0 /\ points = 0 /\ locator = None

YearIdle ==
    /\ ypc = "idle" /\ dates = <<>> /\ max_ticks = 0 /\ selected_dates = <<>>

AxisIdle ==
    /\ vpc = "idle" /\ data_min = 0 /\ data_max = 0 /\ axis_baseline = 0
    /\ allow_broken_y_axis = TRUE /\ chart_ymin = None /\ chart_ymax = None
    /\ ymin = None /\ ylim = None /\ broken_axis = FALSE

LayoutIdle ==
    /\ gpc = "idle" /\ requested_width = 0 /\ requested_height = None
    /\ factor = 1 /\ title = FALSE /\ subtitle = FALSE /\ note = FALSE
    /\ caption = FALSE /\ logo = None /\ rtl = FALSE
    /\ fig_size = DefaultFigSize /\ caption_hextent = None
    /\ image_size = None

RenderIdle ==
    /\ rpc = "idle" /\ method = "" /\ todo = <<>> /\ r_series = 0
    /\ dup_serie = 0 /\ r_highlight = FALSE /\ r_decimals = None
    /\ r_interval = None /\ r_show_ticks = TRUE /\ r_texts = FALSE
    /\ r_annotations = 0
    /\ elems = [plots |-> 0, annotations |-> 0, titles |-> 0, texts |-> 0]
    /\ canvas = DefaultFigSize /\ plotted = 0 /\ passes = <<>>
    /\ saved = {} /\ r_error = None /\ calls = <<>> /\ first = None

InitFromIdle ==
    /\ ipc = "idle" /\ args = EmptyDict /\ args_given = EmptyDict
    /\ chart = None

UnitsIdle ==
    /\ ucls = "" /\ chart_units = None /\ units_before = None
    /\ units_val = None /\ units_error = None /\ units_sets = 0

DwIdle ==
    /\ dpc = "idle" /\ dw_calls = <<>> /\ dw_saved = 0 /\ dw_error = ""
    /\ dw_attrs = [caption |-> FALSE, metadata |-> FALSE,
                   highlight |-> FALSE, type |-> ""]

XTickIdle ==
    /\ xpc = "idle" /\ x_cls = "" /\ x_manual = FALSE /\ x_points = <<>>
    /\ x_interval = None /\ x_step = NoStep /\ x_tick = None /\ x_pos = 0
    /\ x_label = None

StackIdle ==
    /\ spc = "idle" /\ stack_data = <<>> /\ stack_i = 0 /\ stack_bars = <<>>

MarginIdle ==
    /\ mpc = "idle" /\ m_h = 0 /\ m_top = 0 /\ m_bottom = 0
    /\ m_elems = [title |-> 0, subtitle |-> 0, note |-> 0, caption |-> 0,
                  logo |-> 0, ticks |-> 0]

\* the parts left as constructed, by the part a specification exercises
IdleButTick == BarIdle /\ AnnIdle /\ LineIdle /\ LocIdle /\ YearIdle /\
    AxisIdle /\ LayoutIdle /\ RenderIdle /\ InitFromIdle /\ UnitsIdle /\
    DwIdle /\ XTickIdle /\ StackIdle /\ MarginIdle
IdleButBar == TickIdle /\ AnnIdle /\ LineIdle /\ LocIdle /\ YearIdle /\
    AxisIdle /\ LayoutIdle /\ RenderIdle /\ InitFromIdle /\ UnitsIdle /\
    DwIdle /\ XTickIdle /\ StackIdle /\ MarginIdle
IdleButAnn == TickIdle /\ BarIdle /\ LineIdle /\ LocIdle /\ YearIdle /\
    AxisIdle /\ LayoutIdle /\ RenderIdle /\ InitFromIdle /\ UnitsIdle /\
    DwIdle /\ XTickIdle /\ StackIdle /\ MarginIdle
IdleButLine == TickIdle /\ BarIdle /\ AnnIdle /\ LocIdle /\ YearIdle /\
    AxisIdle /\ LayoutIdle /\ RenderIdle /\ InitFromIdle /\ UnitsIdle /\
    DwIdle /\ XTickIdle /\ StackIdle /\ MarginIdle
IdleButLoc == TickIdle /\ BarIdle /\ AnnIdle /\ LineIdle /\ YearIdle /\
    AxisIdle /\ LayoutIdle /\ RenderIdle /\ InitFromIdle /\ UnitsIdle /\
    DwIdle /\ XTickIdle /\ StackIdle /\ MarginIdle
IdleButYear == TickIdle /\ BarIdle /\ AnnIdle /\ LineIdle /\ LocIdle /\
    AxisIdle /\ LayoutIdle /\ RenderIdle /\ InitFromIdle /\ UnitsIdle /\
    DwIdle /\ XTickIdle /\ StackIdle /\ MarginIdle
IdleButAxis == TickIdle /\ BarIdle /\ AnnIdle /\ LineIdle /\ LocIdle /\
    YearIdle /\ LayoutIdle /\ RenderIdle /\ InitFromIdle /\ UnitsIdle /\
    DwIdle /\ XTickIdle /\ StackIdle /\ MarginIdle
IdleButLayout == TickIdle /\ BarIdle /\ AnnIdle /\ LineIdle /\ LocIdle /\
    YearIdle /\ AxisIdle /\ RenderIdle /\ InitFromIdle /\ UnitsIdle /\
    DwIdle /\ XTickIdle /\ StackIdle /\ MarginIdle
IdleButRender == TickIdle /\ BarIdle /\ AnnIdle /\ LineIdle /\ LocIdle /\
    YearIdle /\ AxisIdle /\ LayoutIdle /\ InitFromIdle /\ UnitsIdle /\
    DwIdle /\ XTickIdle /\ StackIdle /\ MarginIdle
IdleButInitFrom == TickIdle /\ BarIdle /\ AnnIdle /\ LineIdle /\ LocIdle /\
    YearIdle /\ AxisIdle /\ LayoutIdle /\ RenderIdle /\ UnitsIdle /\
    DwIdle /\ XTickIdle /\ StackIdle /\ MarginIdle
IdleButUnits == TickIdle /\ BarIdle /\ AnnIdle /\ LineIdle /\ LocIdle /\
    YearIdle /\ AxisIdle /\ LayoutIdle /\ RenderIdle /\ InitFromIdle /\
    DwIdle /\ XTickIdle /\ StackIdle /\ MarginIdle
IdleButDw == TickIdle /\ BarIdle /\ AnnIdle /\ LineIdle /\ LocIdle /\
    YearIdle /\ AxisIdle /\ LayoutIdle /\ RenderIdle /\ InitFromIdle /\
    UnitsIdle /\ XTickIdle /\ StackIdle /\ MarginIdle
IdleButXTick == TickIdle /\ BarIdle /\ AnnIdle /\ LineIdle /\ LocIdle /\
    YearIdle /\ AxisIdle /\ LayoutIdle /\ RenderIdle /\ InitFromIdle /\
    UnitsIdle /\ DwIdle /\ StackIdle /\ MarginIdle
IdleButStack == TickIdle /\ BarIdle /\ AnnIdle /\ LineIdle /\ LocIdle /\
    YearIdle /\ AxisIdle /\ LayoutIdle /\ RenderIdle /\ InitFromIdle /\
    UnitsIdle /\ DwIdle /\ XTickIdle /\ MarginIdle
IdleButMargin == TickIdle /\ BarIdle /\ AnnIdle /\ LineIdle /\ LocIdle /\
    YearIdle /\ AxisIdle /\ LayoutIdle /\ RenderIdle /\ InitFromIdle /\
    UnitsIdle /\ DwIdle /\ XTickIdle /\ StackIdle

\* Chart._apply_changes_before_rendering: the tick/decimal resolution
Init == TickInit /\ IdleButTick
Next == FirstDraw \/ Escalate \/ Deduplicate
Spec == Init /\ [][Next]_vars

\* SerialChart._add_data for a chart of type "bars"
InitBars == BarInit /\ IdleButBar
NextBars == PlotSerie \/ PlotDone
SpecBars == InitBars /\ [][NextBars]_vars

\* SerialChart._get_annotation_direction
InitAnn == AnnInit /\ IdleButAnn
NextAnn == CallAnnotationDirection
SpecAnn == InitAnn /\ [][NextAnn]_vars

\* SerialChart._add_data for a chart of type "line": the highlighted points
InitLine == LineInit /\ IdleButLine
NextLine == PlotLine \/ AnnotateHighlights
SpecLine == InitLine /\ [][NextLine]_vars

\* locator.get_best_locator
InitLoc == LocInit /\ IdleButLoc
NextLoc == CallGetBestLocator
SpecLoc == InitLoc /\ [][NextLoc]_vars

\* locator.get_year_ticks
InitYear == YearInit /\ IdleButYear
NextYear == CallGetYearTicks
SpecYear == InitYear /\ [][NextYear]_vars

\* SerialChart._add_data: the limits of the value axis
InitAxis == AxisInit /\ IdleButAxis
NextAxis == SetValueAxisLimits
SpecAxis == InitAxis /\ [][NextAxis]_vars

\* Chart.render: the size of the canvas from _set_size to savefig
InitLayout == LayoutInit /\ IdleButLayout
NextLayout ==
    \/ CalculateSize \/ AddTitle \/ AddSubtitle \/ AddLogo \/ AddCaption
    \/ AddNote \/ Savefig
SpecLayout == InitLayout /\ [][NextLayout]_vars

\* Chart.render and Chart.render_all: the passes and the storage
InitRender == RenderInit /\ IdleButRender
NextRender ==
    \/ StartRender \/ PlotData \/ SizePass \/ TickPass \/ AnnotatePass
    \/ LabelPass \/ FitPass \/ Encode \/ Save
SpecRender == InitRender /\ [][NextRender]_vars

\* Chart.init_from
InitInitFrom == InitFromInit /\ IdleButInitFrom
NextInitFrom == CallInitFrom
SpecInitFrom == InitInitFrom /\ [][NextInitFrom]_vars

\* Chart.units
InitUnits == UnitsInit /\ IdleButUnits
NextUnits == SetUnits
SpecUnits == InitUnits /\ [][NextUnits]_vars

\* DatawrapperChart.render
InitDw == DwInit /\ IdleButDw
NextDw ==
    \/ DwPrepare
    \/ DwCreate
    \/ DwFetch
    \/ DwUpload
    \/ DwExport
    \/ DwSave
SpecDw == InitDw /\ [][NextDw]_vars

\* the x tick step and its label callbacks
InitXTick == XTickInit /\ IdleButXTick
NextXTick ==
    \/ SetXTicks
    \/ CallFmt
SpecXTick == InitXTick /\ [][NextXTick]_vars

\* the bottoms of stacked bars
InitStack == StackInit /\ IdleButStack
NextStack == PlotStackedSerie
SpecStack == InitStack /\ [][NextStack]_vars

\* the final margin fit
InitMargin == MarginInit /\ IdleButMargin
NextMargin == FitMargins
SpecMargin == InitMargin /\ [][NextMargin]_vars

\* ------------------------------------------------------------------ claims
\* adjacent labels of the value axis with the same text
AdjacentDuplicate(t, u, dec) ==
    \E i \in 1..(Len(t) - 1) :
        FormatTick(t[i], u, dec) = FormatTick(t[i + 1], u, dec)

\* C1: the escalation loop assigns decimals 1, 2, 3 in that order, runs at
\* most 3 times and has exited after the third pass, whatever ticks each
\* re-render produces.
C1_EscalationBounded ==
    /\ Len(tried) <= 3
    /\ \A k \in 1..Len(tried) : tried[k] = k
    /\ (tried # <<>> => decimals = Some(tried[Len(tried)]))
    /\ (Len(tried) = 3 => pc # "loop")

\* C1 witness: three passes were made and the labels are still duplicated
C1_Witness ==
    /\ pc = "dedup"
    /\ show_ticks /\ caller_decimals = None
    /\ tried = <<1, 2, 3>>
    /\ HasDuplicates(ticks, units, decimals)

\* C2: with decimals left to the chart, when the resolution step is over no
\* two adjacent tick labels of the value axis have the same text.
C2_NoAdjacentDuplicates ==
    (pc = "done" /\ show_ticks /\ caller_decimals = None)
        => ~AdjacentDuplicate(ticks, units, decimals)

\* C2 witness: escalation ran out, repeated labels were dropped and at least
\* two ticks are left
C2_Witness ==
    /\ pc = "done"
    /\ show_ticks /\ caller_decimals = None
    /\ tried = <<1, 2, 3>>
    /\ ticks_fixed
    /\ Len(ticks) >= 2

\* C3: decimals set by the caller are never changed and the data is never
\* plotted again by the resolution step.
C3_PinnedDecimalsKept ==
    caller_decimals # None =>
        /\ decimals = caller_decimals
        /\ tried = <<>>
        /\ add_data_calls <= 1

\* C3 witness: the caller's decimals give duplicated adjacent labels
C3_Witness ==
    /\ pc = "dedup"
    /\ caller_decimals # None /\ has_data
    /\ AdjacentDuplicate(ticks, units, decimals)

\* C4: the de-duplication completes without raising and leaves at least one
\* tick on an axis that had at least one tick label.
C4_DedupKeepsATick ==
    (pc \in {"done", "raised"} /\ show_ticks)
        => (pc = "done" /\ Len(ticks) >= 1)

\* the bars of the series handled last have been drawn
SeriePlotted == serie_i >= 1 /\ Len(bars) = serie_i

\* C5: single series, color_fn "positive_negative", any baseline and any
\* highlight: a bar is negative iff its value is below 0, positive iff it is
\* above 0, and neutral iff its value is null or 0.
C5_PositiveNegativeByValue ==
    (n_series = 1 /\ color_fn = Some("positive_negative") /\ SeriePlotted) =>
        \A k \in 1..Len(serie) :
            /\ bars[1][k] = "negative" <=> (serie[k] # None /\ serie[k][1] < 0)
            /\ bars[1][k] = "positive" <=> (serie[k] # None /\ serie[k][1] > 0)
            /\ bars[1][k] = "neutral" <=> (serie[k] = None \/ serie[k][1] = 0)

\* C6: whenever color_fn is set, every bar of a chart that was drawn has the
\* colour the colour function gives for the value the bar is drawn with, in
\* single-series and in stacked charts alike.
C6_ColorFnAlwaysDecides ==
    (bpc = "done" /\ color_fn # None /\ SeriePlotted) =>
        \A k \in 1..Len(serie) :
            bars[serie_i][k] = ColorBy(Some(ParseValues(serie)[k]))

\* the colour of series i when nothing is highlighted
PaletteColor(i) == IF colors # None THEN colors[1][i] ELSE QualitativeColors[i]

HighlightIsLabel(l) == highlight # None /\ highlight[1].kind = "label" /\ highlight[1].label = l

\* C7 as stated: two or more series, no color_fn.  Without highlight the bars
\* of series i have palette colour i (colors[i] when given); with highlight
\* equal to the label of series k the bars of series k are strong and those of
\* every other series are neutral.
C7_StackedColorsOriginal ==
    (bpc = "done" /\ n_series >= 2 /\ color_fn = None) =>
        /\ highlight = None =>
             \A i \in 1..Len(bars) : \A j \in 1..Len(bars[i]) :
                 bars[i][j] = PaletteColor(i)
        /\ \A k \in 1..Len(labels) : HighlightIsLabel(labels[k]) =>
             \A i \in 1..Len(bars) : \A j \in 1..Len(bars[i]) :
                 bars[i][j] = IF i = k THEN "strong" ELSE "neutral"

\* C7 as amended: with highlight equal to the label of some series, the bars of
\* every series carrying that label are strong and the bars of every series
\* with another label are neutral (without highlight: as stated).
C7_StackedColors ==
    (n_series >= 2 /\ color_fn = None) =>
        /\ highlight = None =>
             \A i \in 1..Len(bars) : \A j \in 1..Len(bars[i]) :
                 bars[i][j] = PaletteColor(i)
        /\ (\E k \in 1..Len(labels) : HighlightIsLabel(labels[k])) =>
             \A i \in 1..Len(bars) : \A j \in 1..Len(bars[i]) :
                 bars[i][j] = IF HighlightIsLabel(labels[i]) THEN "strong" ELSE "neutral"

\* C7 witness: a stacked chart fully drawn with the second series highlighted
\* by its label, the first series carrying another label
C7_Witness ==
    /\ bpc = "done"
    /\ n_series >= 2 /\ color_fn = None
    /\ Len(bars) = n_series
    /\ Len(labels) = n_series
    /\ HighlightIsLabel(labels[2]) /\ labels[1] # labels[2]

\* C8: single series, no color_fn, highlight on a timepoint of the series:
\* exactly the bar at that timepoint is strong, every other bar is neutral,
\* whatever the highlighted value.
C8_HighlightedBarStrong ==
    (/\ n_series = 1 /\ color_fn = None /\ SeriePlotted
     /\ HighlightDate # None /\ HighlightDate[1] <= n_points) =>
        \A k \in 1..Len(serie) :
            bars[1][k] = IF Some(k) = HighlightDate THEN "strong" ELSE "neutral"

\* the call of _get_annotation_direction is over
Called == apc \in {"returned", "raised"}

\* the direction the rules give for values without nulls
RuleDirection(i, vs) ==
    LET n    == Len(vs)
        v(k) == vs[k][1]
    IN  IF n < 2 THEN "up"
        ELSE IF i = 1 THEN (IF v(2) > v(1) THEN "down" ELSE "up")
        ELSE IF i = n THEN (IF v(n - 1) <= v(n) THEN "up" ELSE "down")
        ELSE IF v(i) >= v(i - 1) /\ v(i) >= v(i + 1) THEN "up"
        ELSE IF v(i) <= v(i - 1) /\ v(i) <= v(i + 1) THEN "down"
        ELSE "up"

\* C9: for values without nulls and a valid index the direction returned is:
\* up for fewer than 2 values; at the first index down if the next value is
\* higher, else up; at the last index up if the value before is <= the last,
\* else down; inside, up for the maximum of the 3-point window, else down for
\* its minimum, else up.
C9_DirectionRules ==
    (Called /\ ~HasNull(values)) =>
        direction = Some(RuleDirection(index, values))

\* C9 witness: the last of three values equals the one before it
C9_Witness ==
    /\ apc = "returned"
    /\ ~HasNull(values)
    /\ Len(values) = 3 /\ index = 3
    /\ values[2] = values[3]
    /\ direction = Some("up")

\* C10: for 2 or more values that may contain nulls and an index whose own
\* value is not null, a direction is returned and nothing is raised.
C10_DirectionWithNulls ==
    (Called /\ Len(values) >= 2 /\ values[index] # None) =>
        /\ apc = "returned"
        /\ direction \in {Some("up"), Some("down"), Some("left"), Some("right")}

\* the positions in highlight_values that hold a value (not nan)
Valued == {k \in 1..Len(highlight_values) : highlight_values[k] # None}
ValuedMax == Max({highlight_values[k][1] : k \in Valued})
ValuedMin == Min({highlight_values[k][1] : k \in Valued})

\* C11: in a line chart where two or more series have a value at the
\* highlighted date, the highest of those values is annotated up, the lowest
\* down and any other one left; two such values get opposite directions.
C11_HighlightOverride ==
    (lpc = "done" /\ Cardinality(Valued) >= 2) =>
        /\ \A k \in Valued :
              LET v == highlight_values[k][1]
              IN  /\ (v = ValuedMax /\ v # ValuedMin) => highlight_dirs[k] = Some("up")
                  /\ (v = ValuedMin /\ v # ValuedMax) => highlight_dirs[k] = Some("down")
                  /\ (v # ValuedMax /\ v # ValuedMin) => highlight_dirs[k] = Some("left")
        /\ Cardinality(Valued) = 2 =>
              {highlight_dirs[k] : k \in Valued} = {Some("up"), Some("down")}

\* C12: get_best_locator decides by first match: more than 150 x 365 days,
\* ticks every 100 years; more than 45 x 365 days, every 20 years; more than
\* 365 days, yearly ticks thinned by the point count (more than 20 points
\* every 10 years, more than 10 every 5, more than 5 every 2, else every
\* year); more than 30 days, monthly; otherwise daily.  So 40 days never
\* gives a year locator, 1000 years gives century ticks and 2 years with 3
\* points gives every-year ticks.
C12_BestLocator ==
    kpc = "returned" =>
        /\ locator =
             Some(IF delta_days > 150 * 365 THEN [kind |-> "year", base |-> 100]
                  ELSE IF delta_days > 45 * 365 THEN [kind |-> "year", base |-> 20]
                  ELSE IF delta_days > 365
                  THEN [kind |-> "year",
                        base |-> IF points > 20 THEN 10
                                 ELSE IF points > 10 THEN 5
                                 ELSE IF points > 5 THEN 2
                                 ELSE 1]
                  ELSE IF delta_days > 30 THEN [kind |-> "month", base |-> 1]
                  ELSE [kind |-> "day", base |-> 1])
        /\ (delta_days = 40 => locator[1].kind # "year")
        /\ (delta_days = 365 * 1000 => locator[1] = [kind |-> "year", base |-> 100])
        /\ ((delta_days = 2 * 365 /\ points = 3) =>
                locator[1] = [kind |-> "year", base |-> 1])

\* a span of more than a year with exactly 20 points: thinned to every 5 years
C12_Witness ==
    /\ kpc = "returned" /\ delta_days = 2 * 365 /\ points = 20
    /\ locator = Some([kind |-> "year", base |-> 5])

\* the distinct years of the argument dates
DistinctYears == {dates[i][1] : i \in 1..Len(dates)}

\* C13: for a non-empty list of dates and max_ticks >= 1, get_year_ticks
\* returns exactly min(max_ticks, number of distinct years) ticks without an
\* index error; every tick is 1 January of a year of the data, the ticks are
\* strictly increasing, the last one is the latest year and, when there are
\* two or more, the first is the earliest year.
C13_YearTicks ==
    ypc # "call" =>
        /\ ypc = "returned"
        /\ Len(selected_dates) = Min({max_ticks, Cardinality(DistinctYears)})
        /\ \A k \in 1..Len(selected_dates) :
              /\ selected_dates[k][1] \in DistinctYears
              /\ selected_dates[k][2] = 1
              /\ selected_dates[k][3] = 1
        /\ \A k \in 1..(Len(selected_dates) - 1) :
              selected_dates[k][1] < selected_dates[k + 1][1]
        /\ selected_dates[Len(selected_dates)][1] = Max(DistinctYears)
        /\ (Len(selected_dates) >= 2 => selected_dates[1][1] = Min(DistinctYears))

\* four distinct years thinned to three ticks: the first, the third, the last
C13_Witness ==
    /\ ypc = "returned"
    /\ Cardinality(DistinctYears) = 4
    /\ max_ticks = 3
    /\ Len(selected_dates) = 3
    /\ selected_dates[2][1] # Min(DistinctYears)

\* C14: with no explicit ymin, for any baseline, the y-axis minimum is clipped
\* to the data minimum and the break mark drawn exactly when axis breaking is
\* allowed, the data minimum is above the baseline and (data max - data min)
\* is smaller than (data min - baseline); in every other case the y-axis
\* minimum is the baseline, or the data minimum when that is below the
\* baseline, and no break mark is drawn.
C14_BrokenAxis ==
    (vpc = "done" /\ chart_ymin = None) =>
        LET clip == /\ allow_broken_y_axis
                    /\ data_min > axis_baseline
                    /\ (data_max - data_min) < (data_min - axis_baseline)
        IN  IF clip
            THEN ymin = Some(data_min) /\ broken_axis
            ELSE /\ ymin = Some(IF data_min < axis_baseline THEN data_min
                                 ELSE axis_baseline)
                 /\ ~broken_axis

\* C15: when the layout passes of a render finish, the canvas has exactly the
\* requested pixel size, for any combination of title, subtitle, note,
\* caption and logo: every temporary resize made to wrap a text is undone
\* before the image is encoded, so a chart requested at W x H with factor 1
\* is encoded at exactly W x H pixels.
C15_CanvasSizeRestored ==
    (gpc \in {"encode", "done"} /\ requested_height # None) =>
        /\ fig_size = <<requested_width, requested_height[1]>>
        /\ (gpc = "done" /\ factor = 1) =>
              image_size = Some(<<requested_width, requested_height[1]>>)

\* a 613 x 409 chart with every text and a logo, encoded at factor 1
C15_Witness ==
    /\ gpc = "done" /\ factor = 1
    /\ title /\ subtitle /\ note /\ caption /\ logo # None
    /\ caption_hextent # None
    /\ image_size = Some(<<613, 409>>)

\* C16: calling render twice on the same chart, with no configuration change
\* in between, gives the same result the second time as the first: the same
\* set of plotted elements (no additional bars, lines, annotations, title,
\* subtitle, caption or note elements), the same decimals and interval, and
\* the same output dimensions.
C16_RenderTwiceSame ==
    (rpc = "ready" /\ calls = <<"render", "render">>) =>
        first = Some(Snapshot(elems, r_decimals, r_interval, canvas))

\* C17: if a series of a SerialChart has the same timepoint twice, render
\* raises a value error while the data is processed, before any bar or line
\* of any series is plotted, and nothing is passed to storage.
C17_DuplicateTimepointsRaise ==
    (dup_serie # 0 /\ rpc \notin {"ready", "data"}) =>
        /\ rpc = "raised"
        /\ r_error = Some("ValueError")
        /\ passes = <<"data">>
        /\ plotted = 0
        /\ elems.plots = 0
        /\ saved = {}

\* the second of two series is the offending one: the first is not plotted
C17_Witness ==
    /\ rpc = "raised" /\ r_series = 2 /\ dup_serie = 2
    /\ r_error = Some("ValueError") /\ plotted = 0

\* C18: if a render or render_all call fails at any step (data processing,
\* layout, encoding of any format, or a storage save), that call has written
\* no output to storage; render_all never leaves some formats stored when a
\* later format fails.
C18_NoPartialOutput ==
    rpc = "raised" => saved = {}

\* the passes of this call without the storage saves
Layout == SelectSeq(passes, LAMBDA p : p # "save")

\* the place the claim gives a pass in its order; the annotations of the
\* highlighted points are annotation placement
ClaimedRank(p) ==
    CASE p = "data" -> 1
      [] p = "size" -> 2
      [] p = "ticks" -> 3
      [] p \in {"annotate", "highlight"} -> 4
      [] p = "labels" -> 5
      [] p = "fit" -> 6
      [] p = "encode" -> 7

\* every save directly follows an encoding
SaveAfterEncode ==
    \A k \in 1..Len(passes) :
        passes[k] = "save" => (k > 1 /\ passes[k - 1] = "encode")

\* C19 as claimed: in every render call the passes run in the order data
\* plotting, canvas size calculation, tick/decimal resolution, annotation
\* placement, label/title/subtitle/caption/note placement, final margin fit,
\* image encoding, and no earlier pass runs again after a later one has
\* started; the storage save happens only after encoding has completed.
C19_PassOrderOriginal ==
    /\ \A i, j \in 1..Len(Layout) :
          i < j => ClaimedRank(Layout[i]) <= ClaimedRank(Layout[j])
    /\ SaveAfterEncode

\* the place of a pass in the order of the code: the highlighted points are
\* annotated by data plotting
CodeRank(p) ==
    CASE p \in {"data", "highlight"} -> 1
      [] p = "size" -> 2
      [] p = "ticks" -> 3
      [] p = "annotate" -> 4
      [] p = "labels" -> 5
      [] p = "fit" -> 6
      [] p = "encode" -> 7

\* position j of Layout lies inside the tick/decimal resolution
InsideTickPass(j) ==
    \E t \in 1..(j - 1) :
        /\ Layout[t] = "ticks"
        /\ \A u \in (t + 1)..j : Layout[u] \in {"data", "highlight"}

\* C19: the passes start in the order data plotting (which also annotates
\* the highlighted points), canvas size calculation, tick/decimal
\* resolution, placement of the caller's annotations, label/title/subtitle/
\* caption/note placement, final margin fit, image encoding; the only pass
\* that runs again after a later one has started is data plotting, which the
\* tick/decimal resolution runs again once for each decimal escalation, at
\* most three times; a format is saved only after it has been encoded.
C19_PassOrder ==
    /\ \A j \in 1..Len(Layout) :
          (\E i \in 1..(j - 1) : CodeRank(Layout[i]) > CodeRank(Layout[j]))
              => (Layout[j] \in {"data", "highlight"} /\ InsideTickPass(j))
    /\ Cardinality({j \in 1..Len(Layout) : Layout[j] = "data"}) <= 4
    /\ SaveAfterEncode

\* a render_all call that returned after three escalations of a highlighted
\* chart and stored both formats
C19_Witness ==
    /\ rpc = "ready" /\ calls = <<"render_all">>
    /\ r_highlight /\ r_decimals = Some(3)
    /\ Cardinality({j \in 1..Len(Layout) : Layout[j] = "data"}) = 4
    /\ saved = {"png", "svg"}

\* the keys init_from recognises: the public attributes of the chart and the
\* keys it handles by name
RecognisedKeys ==
    {"data", "decimals", "ax", "requested_width", "requested_height",
     "labels", "title", "units", "ymin", "ymax", "ticks"}

\* the attribute a recognised key names
AttributeOf(k) ==
    CASE k = "title" -> "_title"
      [] k = "units" -> "_units"
      [] OTHER -> k

\* the attributes in which the chart differs from one constructed directly
Differing ==
    LET c == chart[1]
        d == Constructed(args["width"], args["height"])
    IN  {a \in DOMAIN c \cup DOMAIN d :
            a \notin DOMAIN c \/ a \notin DOMAIN d \/ c[a] # d[a]}

C21_UnitsAlwaysValid ==
    /\ (units_val # None /\
           units_val[1] \notin {<<"number">>, <<"percent">>, <<"degrees">>,
                                <<"count">>})
          => (units_error = Some("ValueError") /\ chart_units = units_before)
    /\ (units_val = Some(<<"count">>) => chart_units = <<"number">>)
    /\ chart_units \in {<<"number">>, <<"percent">>, <<"degrees">>}

\* the create, upload and export calls among the calls issued, in order
RECURSIVE NamedCalls(_)
NamedCalls(cs) ==
    IF cs = <<>> THEN <<>>
    ELSE IF Head(cs).call = "fetch" THEN NamedCalls(Tail(cs))
    ELSE <<Head(cs).call>> \o NamedCalls(Tail(cs))

\* create, upload, export are called in this order, each at most once
InOrderOnce ==
    NamedCalls(dw_calls) = SubSeq(<<"create", "upload", "export">>, 1,
                                  Len(NamedCalls(dw_calls)))

\* storage.save is called only after the export, and once when render returns
SavedOnceAfterExport ==
    /\ dw_saved <= 1
    /\ dw_saved = 1 => (dw_calls # <<>> /\
                        dw_calls[Len(dw_calls)].call = "export")
    /\ dpc = "returned" => dw_saved = 1

C23_OneBarPerPoint ==
    (pc = "done" /\ has_data)
      => \A n_s \in 1..MaxSeries, n_p \in 1..MaxPoints :
           BarsInAxes(n_s, n_p) = n_s * n_p

\* C24: for a SerialChart with no manual ticks the x tick rule is the first
\* match of: span above 150 years, century ticks; above 45 years, ticks
\* every 20 years; above 1 year, yearly ticks thinned by the point count;
\* above 500 days, evenly distributed year ticks; otherwise by interval.
\* So data spanning 1000 years gets century ticks.
C24_TickRuleOrder ==
    (xpc # "call" /\ x_cls = "SerialChart" /\ ~x_manual)
      => LET days == DeltaOf(x_points)
             n == Len(x_points)
         IN  IF days > 365 * 150 THEN x_step.locator = Some(YearLocator(100))
             ELSE IF days > 365 * 45 THEN x_step.locator = Some(YearLocator(20))
             ELSE IF days > 365 THEN x_step.locator = Some(YearThinning(n))
             ELSE IF days > 500 THEN x_step.rule = "year_ticks"
             ELSE x_step.rule = "best_locator"

\* C25: in SerialChart, with no manual ticks and a span of at most 500 days,
\* the x tick step defines a label formatter and completes without error
\* for every interval (yearly, quarterly, monthly, weekly, daily), given or
\* guessed; quarterly data is labelled like monthly data.
C25_FormatterForEveryInterval ==
    (xpc # "call" /\ x_cls = "SerialChart" /\ ~x_manual /\
       DeltaOf(x_points) <= 500)
      => /\ xpc = "set"
         /\ x_step.error = ""
         /\ x_step.fmt # ""
         /\ EffectiveInterval(x_cls, x_interval, x_points) = Some("quarterly")
              => x_step.fmt = "monthly"

\* the callback labels the tick by its date (not by the data point at its index)
LabelsByPosition ==
    x_step.fmt = "monthly" \/ (x_step.fmt = "daily" /\ x_cls = "Chart")

\* C26: every date tick-label callback (weekly, monthly/quarterly, daily, of
\* Chart._set_date_ticks and of SerialChart) returns no label, without
\* raising, for a tick whose position or index is not that of a data point,
\* a tick index equal to or above the number of data points included.
C26_NoLabelOffData ==
    (x_tick # None /\ x_step.fmt \in {"weekly", "monthly", "daily"})
      => /\ x_pos >= Len(x_points) => x_label = None
         /\ (LabelsByPosition /\
               x_tick[1].iso \notin {x_points[i].iso : i \in DOMAIN x_points})
              => x_label = None

\* the series that hold a value at the highlighted date
SeriesAtHighlight ==
    {k \in 1..Len(line_series) : highlight_date <= Len(line_series[k])}

\* C27: in a line chart of several series where exactly one series has a
\* value at the highlighted date, that value is annotated, in the direction
\* _get_annotation_direction gives for that series' own values and that
\* point's index, whichever position the series has in the data.
C27_SingleHighlightOwnSeries ==
    (lpc = "done" /\ line_n_series >= 2 /\ Cardinality(SeriesAtHighlight) = 1)
      => \A k \in SeriesAtHighlight :
           line_series[k][highlight_date] # None
             => /\ Len(highlight_dirs) = 1
                /\ highlight_dirs[1] =
                     Some(ArrayAnnotationDirection(highlight_date, line_series[k]))

\* the ends of a bar on the value axis
BarLow(b) == IF b.height < 0 THEN b.bottom + b.height ELSE b.bottom
BarHigh(b) == IF b.height < 0 THEN b.bottom ELSE b.bottom + b.height

\* the length of the value interval two bars have in common
Overlap(a, b) ==
    LET lo == IF BarLow(a) > BarLow(b) THEN BarLow(a) ELSE BarLow(b)
        hi == IF BarHigh(a) < BarHigh(b) THEN BarHigh(a) ELSE BarHigh(b)
    IN  IF hi > lo THEN hi - lo ELSE 0

\* C28: in a stacked bar chart with any number of series and baseline 0,
\* two bars of different series at the same timepoint never cover a common
\* value interval of positive length.
C28_StackedBarsDisjoint ==
    \A a \in 1..Len(stack_bars), b \in 1..Len(stack_bars) :
      a < b => \A j \in DOMAIN stack_bars[a] :
                 Overlap(stack_bars[a][j], stack_bars[b][j]) = 0

\* C29: for every positive requested height and every combination of title,
\* subtitle, note, caption, logo and tick labels, the final margin fit gives
\* a bottom margin strictly below the top margin (1 - header height): the
\* plot area has positive height and the fit does not fail.
C29_PlotAreaPositive ==
    mpc # "fit" => (mpc = "fitted" /\ m_bottom < m_top)

\* C30: after SerialChart has plotted its data with ymax not set, the limits
\* of the value axis enclose every data value: the lower limit is at most
\* the smallest value, for every ymin, baseline and allow_broken_y_axis, and
\* the upper limit is at least the largest value, also when all values are
\* negative.
C30_LimitsEncloseData ==
    (ylim # None /\ chart_ymax = None)
      => /\ ylim[1][1] <= data_min * 100
         /\ ylim[1][2] >= data_max * 100

=============================================================================
